---------------------------- MODULE Spec2Model ----------------------------
(***************************************************************************)
(* Model of the ordinal arithmetic engine of src/transfinite/ordinal.py.   *)
(*                                                                         *)
(* A Python value is a record [type, nat, cnf, vnf]:                       *)
(*   type = "int"      a plain Python int, its value in nat                *)
(*   type = "ordinal"  an instance of class ordinal with the fields        *)
(*                     _nat, _cnf (tuples <<p, c>>), _vnf (<<s, i, c>>)    *)
(* The exponents, subscripts and arguments inside the tuples are Python    *)
(* values again (the code stores both ints and ordinals there), the        *)
(* coefficients and _nat are plain integers.                               *)
(***************************************************************************)
EXTENDS Integers, Sequences, FiniteSets, TLC

(***************************************************************************)
(* Bounds of the model.                                                    *)
(***************************************************************************)
\* CPython hashes a non-negative int n to n mod (2^61 - 1).  The model keeps
\* the reduction and scales the modulus down so that colliding naturals fit
\* in the integers TLC can handle.
HashModulus == 2
\* largest natural handed to the constructor or written as an int literal
MaxNat == 3
\* largest weight of a value kept in a register
MaxWeight == 7
\* largest total weight of the three registers
MaxTotal == 11

(***************************************************************************)
(* Values.                                                                 *)
(***************************************************************************)
PyInt(n) == [type |-> "int", nat |-> n, cnf |-> <<>>, vnf |-> <<>>]

\* ordinal.__init__ with the internal fields _nat, _cnf, _vnf
MkOrdinal(n, c, v) == [type |-> "ordinal", nat |-> n, cnf |-> c, vnf |-> v]

IsInt(x) == x.type = "int"

\* "self._cnf or self._vnf"
IsInfinite(x) == x.cnf # <<>> \/ x.vnf # <<>>

\* ordinal.__init__(value) for an int or an ordinal argument
ordinal(x) == MkOrdinal(x.nat, x.cnf, x.vnf)

\* ordinal.__init__(name=...) for the three families of aliases
omega == MkOrdinal(0, << <<PyInt(1), 1>> >>, <<>>)
epsilon_0 == MkOrdinal(0, <<>>, << <<PyInt(1), PyInt(0), 1>> >>)
zeta_0 == MkOrdinal(0, <<>>, << <<PyInt(2), PyInt(0), 1>> >>)

\* ordinal.__int__ on a finite value, int(n) on an int
ToInt(x) == x.nat

\* int.__pow__ on non-negative integers
IntPow(m, n) == IF n = 0 THEN 1 ELSE m ^ n

RECURSIVE bin_log(_)
bin_log(x) == IF x <= 1 THEN 0 ELSE 1 + bin_log(x \div 2)

kind(x) ==
  IF x.nat = 0
  THEN IF IsInfinite(x) THEN "kind_limit" ELSE "kind_zero"
  ELSE "kind_successor"

predecessor(x) ==
  IF IsInt(x) THEN PyInt(x.nat - 1) ELSE MkOrdinal(x.nat - 1, x.cnf, x.vnf)

(***************************************************************************)
(* The cached hash.  hash(int) is the residue; the hash of a tuple is a    *)
(* function of the hashes of its elements, modelled without collisions of  *)
(* its own as the tuple of the element hashes.                             *)
(***************************************************************************)
HashInt(n) == n % HashModulus

RECURSIVE Hash(_)
Hash(x) ==
  [nat |-> HashInt(x.nat),
   cnf |-> [k \in DOMAIN x.cnf |-> <<Hash(x.cnf[k][1]), HashInt(x.cnf[k][2])>>],
   vnf |-> [k \in DOMAIN x.vnf |->
             <<Hash(x.vnf[k][1]), Hash(x.vnf[k][2]), HashInt(x.vnf[k][3])>>]]

(***************************************************************************)
(* The cached tier, a pair of integers compared as Python tuples.          *)
(***************************************************************************)
TupleLt2(s, t) == s[1] < t[1] \/ (s[1] = t[1] /\ s[2] < t[2])

TupleMax2(s, t) == IF TupleLt2(s, t) THEN t ELSE s

\* a faulty tier: the subscript of a Veblen term is not raised by 2 over
\* the tiers of what lies below the Veblen hierarchy
RECURSIVE tier_unraised(_)
tier_unraised(x) ==
  IF x.vnf # <<>>
  THEN TupleMax2(tier_unraised(x.vnf[1][1]), tier_unraised(x.vnf[1][2]))
  ELSE IF x.cnf # <<>>
       THEN LET t == tier_unraised(x.cnf[1][1])
            IN <<1, (IF t[1] = 0 THEN 0 ELSE t[2]) + 1>>
       ELSE <<0, bin_log(x.nat)>>

RECURSIVE tier(_)
tier(x) ==
  IF x.vnf # <<>>
  THEN LET ts == tier(x.vnf[1][1])
           ti == tier(x.vnf[1][2])
       IN TupleMax2(<<ts[1] + 2, ts[2]>>, ti)
  ELSE IF x.cnf # <<>>
       THEN LET t == tier(x.cnf[1][1])
            IN <<1, (IF t[1] = 0 THEN 0 ELSE t[2]) + 1>>
       ELSE <<0, bin_log(x.nat)>>

(***************************************************************************)
(* Python's binary operators.  BinaryOp(op, x, y) is the evaluation of     *)
(* "x op y"; it is defined after the methods of class ordinal, which use   *)
(* the operators on their own operands.                                    *)
(***************************************************************************)
RECURSIVE BinaryOp(_, _, _)

PyEq(x, y) == BinaryOp("==", x, y)

PyNe(x, y) == BinaryOp("!=", x, y)

PyLt(x, y) == BinaryOp("<", x, y)

PyLe(x, y) == BinaryOp("<=", x, y)

PyGt(x, y) == BinaryOp(">", x, y)

PyGe(x, y) == BinaryOp(">=", x, y)

Plus(x, y) == BinaryOp("+", x, y)

Times(x, y) == BinaryOp("*", x, y)

Power(x, y) == BinaryOp("**", x, y)

(***************************************************************************)
(* Comparisons.                                                            *)
(***************************************************************************)
\* list equality of two _cnf lists: same length, tuples equal elementwise
CnfEq(s, t) ==
  /\ Len(s) = Len(t)
  /\ \A k \in DOMAIN s : PyEq(s[k][1], t[k][1]) /\ s[k][2] = t[k][2]

\* list equality of two _vnf lists
VnfEq(s, t) ==
  /\ Len(s) = Len(t)
  /\ \A k \in DOMAIN s :
       /\ PyEq(s[k][1], t[k][1])
       /\ PyEq(s[k][2], t[k][2])
       /\ s[k][3] = t[k][3]

ordinal_eq(self, other) ==
  IF IsInt(other)
  THEN IF IsInfinite(self) THEN FALSE ELSE self.nat = other.nat
  ELSE IF Hash(self) # Hash(other) THEN FALSE
  ELSE IF tier(self) # tier(other) THEN FALSE
  ELSE VnfEq(self.vnf, other.vnf) /\ CnfEq(self.cnf, other.cnf)
       /\ self.nat = other.nat

\* ordinal.__ne__: not self == other
ordinal_ne(self, other) == ~PyEq(self, other)

\* _cmp of _veblen_cmp on the tuples (x, xc) and (y, yc)
PairCmp(x, xc, y, yc) ==
  IF PyEq(x, y)
  THEN IF xc = yc THEN 0 ELSE IF xc < yc THEN -1 ELSE 1
  ELSE IF PyLt(x, y) THEN -1 ELSE 1

\* the term (sub, index) with coefficient 1 as an ordinal
TermOrdinal(t) == MkOrdinal(0, <<>>, << <<t[1], t[2], 1>> >>)

veblen_cmp(a, b) ==
  IF PyLt(a[1], b[1]) THEN PairCmp(a[2], a[3], TermOrdinal(b), b[3])
  ELSE IF PyGt(a[1], b[1]) THEN PairCmp(TermOrdinal(a), a[3], b[2], b[3])
  ELSE PairCmp(a[2], a[3], b[2], b[3])

\* tuple comparison (< or, with le, <=) of the cmp_to_key wrappers of two
\* _vnf lists from position k: the first pair of unequal keys decides
RECURSIVE VnfKeysLess(_, _, _, _)
VnfKeysLess(s, t, k, le) ==
  IF k > Len(s) \/ k > Len(t)
  THEN IF le THEN Len(s) <= Len(t) ELSE Len(s) < Len(t)
  ELSE IF veblen_cmp(s[k], t[k]) = 0 THEN VnfKeysLess(s, t, k + 1, le)
  ELSE veblen_cmp(s[k], t[k]) < 0

VnfKeysEq(s, t) ==
  /\ Len(s) = Len(t)
  /\ \A k \in DOMAIN s : veblen_cmp(s[k], t[k]) = 0

\* list comparison (< or, with le, <=) of two _cnf lists from position k:
\* the first unequal pair of tuples decides, by its first unequal component
RECURSIVE CnfLess(_, _, _, _)
CnfLess(s, t, k, le) ==
  IF k > Len(s) \/ k > Len(t)
  THEN IF le THEN Len(s) <= Len(t) ELSE Len(s) < Len(t)
  ELSE IF PyEq(s[k][1], t[k][1]) /\ s[k][2] = t[k][2]
  THEN CnfLess(s, t, k + 1, le)
  ELSE IF ~PyEq(s[k][1], t[k][1])
  THEN IF le THEN PyLe(s[k][1], t[k][1]) ELSE PyLt(s[k][1], t[k][1])
  ELSE IF le THEN s[k][2] <= t[k][2] ELSE s[k][2] < t[k][2]

\* (keys(self._vnf), self._cnf, self._nat) < or <= the same of other
TripleLess(self, other, le) ==
  IF ~VnfKeysEq(self.vnf, other.vnf)
  THEN VnfKeysLess(self.vnf, other.vnf, 1, le)
  ELSE IF ~CnfEq(self.cnf, other.cnf)
  THEN CnfLess(self.cnf, other.cnf, 1, le)
  ELSE IF le THEN self.nat <= other.nat ELSE self.nat < other.nat

ordinal_lt(self, other) ==
  IF IsInt(other)
  THEN IF IsInfinite(self) THEN FALSE ELSE self.nat < other.nat
  ELSE IF Hash(self) = Hash(other) THEN FALSE
  ELSE IF TupleLt2(tier(self), tier(other)) THEN TRUE
  ELSE IF TupleLt2(tier(other), tier(self)) THEN FALSE
  ELSE TripleLess(self, other, FALSE)

ordinal_le(self, other) ==
  IF IsInt(other)
  THEN IF IsInfinite(self) THEN FALSE ELSE self.nat <= other.nat
  ELSE IF Hash(self) = Hash(other) THEN TRUE
  ELSE IF TupleLt2(tier(self), tier(other)) THEN TRUE
  ELSE IF TupleLt2(tier(other), tier(self)) THEN FALSE
  ELSE TripleLess(self, other, TRUE)

\* ordinal.__gt__: not self <= other
ordinal_gt(self, other) == ~PyLe(self, other)

\* ordinal.__ge__: not self < other
ordinal_ge(self, other) == ~PyLt(self, other)

(***************************************************************************)
(* Addition.                                                               *)
(***************************************************************************)
Front(s) == SubSeq(s, 1, Len(s) - 1)

Last(s) == s[Len(s)]

\* a _vnf term with its coefficient replaced by 1: t[0:2] + (1,)
TermHead(t) == <<t[1], t[2], 1>>

\* "while rvnf and _veblen_cmp(rvnf[-1][0:2] + (1,), head) < 0: del rvnf[-1]"
RECURSIVE StripVnf(_, _)
StripVnf(rvnf, head) ==
  IF rvnf # <<>> /\ veblen_cmp(TermHead(Last(rvnf)), head) < 0
  THEN StripVnf(Front(rvnf), head)
  ELSE rvnf

\* "while rcnf and rcnf[-1][0] < ocnf[0][0]: del rcnf[-1]"
RECURSIVE StripCnf(_, _)
StripCnf(rcnf, p) ==
  IF rcnf # <<>> /\ PyLt(Last(rcnf)[1], p)
  THEN StripCnf(Front(rcnf), p)
  ELSE rcnf

ordinal_add(self, other) ==
  IF IsInt(other)
  THEN MkOrdinal(self.nat + other.nat, self.cnf, self.vnf)
  ELSE IF other.vnf # <<>>
  THEN LET ovnf == other.vnf
           rvnf == StripVnf(self.vnf, TermHead(ovnf[1]))
           last == Last(rvnf)
       IN IF rvnf # <<>> /\ veblen_cmp(TermHead(last), TermHead(ovnf[1])) = 0
          THEN MkOrdinal(other.nat, other.cnf,
                 Front(rvnf) \o << <<last[1], last[2], last[3] + ovnf[1][3]>> >>
                   \o Tail(ovnf))
          ELSE MkOrdinal(other.nat, other.cnf, rvnf \o ovnf)
  ELSE IF other.cnf # <<>>
  THEN LET ocnf == other.cnf
           rcnf == StripCnf(self.cnf, ocnf[1][1])
           last == Last(rcnf)
       IN IF rcnf # <<>> /\ PyEq(last[1], ocnf[1][1])
          THEN MkOrdinal(other.nat,
                 Front(rcnf) \o << <<last[1], last[2] + ocnf[1][2]>> >>
                   \o Tail(ocnf),
                 self.vnf)
          ELSE MkOrdinal(other.nat, rcnf \o ocnf, self.vnf)
  ELSE MkOrdinal(self.nat + other.nat, self.cnf, self.vnf)

\* ordinal.__radd__: ordinal(other) + self
ordinal_radd(self, other) == Plus(ordinal(other), self)

(***************************************************************************)
(* The operands of the folds that are no ordinals: a pair of ints, and the *)
(* composition of linear maps the tests fold with.                         *)
(***************************************************************************)
PyPair(u, v) == [type |-> "tuple", nat |-> 0, cnf |-> <<>>, vnf |-> <<>>,
                 items |-> <<u, v>>]

\* lin_concat(a, b) of the tests: (au * bu, au * bv + av)
lin_concat(x, y) ==
  PyPair(x.items[1] * y.items[1], x.items[1] * y.items[2] + x.items[2])

\* func(lhs, rhs) for the functions the folds are called with
Apply(func, lhs, rhs) ==
  IF func = "lin_concat" THEN lin_concat(lhs, rhs) ELSE BinaryOp(func, lhs, rhs)

\* functools.reduce(func, iterable, initial) and the builtin sum: the fold
\* from the left
RECURSIVE reduce(_, _, _)
reduce(func, iterable, initial) ==
  IF iterable = <<>> THEN initial
  ELSE reduce(func, Tail(iterable), Apply(func, initial, Head(iterable)))

sum(iterable) == reduce("+", iterable, PyInt(0))

(***************************************************************************)
(* reduce_bisected: the fold that combines like a perfect binary tree.     *)
(* func names the binary operator that combines two entries (operator.add  *)
(* is "+").                                                                *)
(***************************************************************************)
reduce_bisected(func, iterable, nothing) ==
  LET \* "while not i & 1": combine the two topmost entries of build
      RECURSIVE Collapse(_, _)
      Collapse(build, i) ==
        IF i % 2 = 0
        THEN Collapse(Front(Front(build))
                        \o <<Apply(func, build[Len(build) - 1], Last(build))>>,
                      i \div 2)
        ELSE build
      \* "for i, v in enumerate(iterator)" from position k of iterable
      RECURSIVE Feed(_, _)
      Feed(build, k) ==
        IF k > Len(iterable) THEN build
        ELSE Feed(Collapse(Append(build, iterable[k]), k), k + 1)
      \* "while len(build) > 1"
      RECURSIVE Drain(_)
      Drain(build) ==
        IF Len(build) > 1
        THEN Drain(Front(Front(build))
                     \o <<Apply(func, build[Len(build) - 1], Last(build))>>)
        ELSE build
  IN IF iterable = <<>> THEN nothing
     ELSE Drain(Feed(<<iterable[1]>>, 2))[1]

sum_bisected(iterable) == reduce_bisected("+", iterable, PyInt(0))

(***************************************************************************)
(* The Veblen function.                                                    *)
(***************************************************************************)
veblen(sub, value) ==
  IF /\ ~IsInt(value)
     /\ Len(value.vnf) = 1
     /\ value.cnf = <<>>
     /\ value.nat = 0
     /\ PyGt(value.vnf[1][1], sub)
     /\ value.vnf[1][3] = 1
  THEN value
  ELSE IF PyEq(sub, PyInt(0))
  THEN IF PyEq(value, PyInt(0)) THEN PyInt(1)
       ELSE IF ~IsInt(value) /\ value.vnf # <<>>
       THEN MkOrdinal(0, <<>>, << <<PyInt(0), value, 1>> >>)
       ELSE MkOrdinal(0, << <<value, 1>> >>, <<>>)
  ELSE MkOrdinal(0, <<>>, << <<sub, value, 1>> >>)

(***************************************************************************)
(* Multiplication.                                                         *)
(***************************************************************************)
\* _exp_add of __mul__: omega^(l_up + r_up) * rc in the Veblen hierarchy
exp_add(l_up, r_up, rc) ==
  LET up == Plus(l_up, r_up)
  IN IF /\ Len(up.vnf) = 1
        /\ up.cnf = <<>>
        /\ up.nat = 0
        /\ PyNe(up.vnf[1][1], PyInt(0))
        /\ up.vnf[1][3] = 1
     THEN MkOrdinal(0, <<>>, << <<up.vnf[1][1], up.vnf[1][2], rc>> >>)
     ELSE MkOrdinal(0, <<>>, << <<PyInt(0), up, rc>> >>)

\* "ordinal(_vnf = [t[:-1] + (1,)]) if t[0] != 0 else t[1]"
TermExponent(t) ==
  IF PyNe(t[1], PyInt(0)) THEN TermOrdinal(t) ELSE t[2]

\* _term_mul of __mul__; l_value and r_value are a natural number for
\* hierarchy 0, a _cnf tuple for hierarchy 1 and a _vnf tuple for hierarchy 2
term_mul(l_h, l_value, r_h, r_value) ==
  LET l_up == IF l_h = 2 THEN TermExponent(l_value) ELSE l_value[1]
      r_up == IF r_h = 2 THEN TermExponent(r_value) ELSE r_value[1]
  IN IF r_h = 0
     THEN IF l_h = 0 THEN MkOrdinal(l_value * r_value, <<>>, <<>>)
          ELSE IF l_h = 1
          THEN MkOrdinal(0, << <<l_value[1], l_value[2] * r_value>> >>, <<>>)
          ELSE MkOrdinal(0, <<>>,
                         << <<l_value[1], l_value[2], l_value[3] * r_value>> >>)
     ELSE IF l_h = 0
     THEN IF r_h = 1 THEN MkOrdinal(0, <<r_value>>, <<>>)
          ELSE MkOrdinal(0, <<>>, <<r_value>>)
     ELSE IF l_h = 1 /\ r_h = 1
     THEN MkOrdinal(0, << <<Plus(l_up, r_up), r_value[2]>> >>, <<>>)
     ELSE exp_add(l_up, r_up, Last(r_value))

\* a faulty rem: the leading term is not sliced off
rem_whole(self, self_h) == IF self_h = 0 THEN PyInt(0) ELSE self

\* rem of __mul__: self without its leading term
rem(self, self_h) ==
  IF self_h = 2 THEN MkOrdinal(self.nat, self.cnf, Tail(self.vnf))
  ELSE IF self_h = 1 THEN MkOrdinal(self.nat, Tail(self.cnf), <<>>)
  ELSE PyInt(0)

ordinal_mul(self, other0) ==
  IF PyEq(other0, PyInt(0)) THEN PyInt(0)
  ELSE IF PyEq(other0, PyInt(1)) THEN self
  ELSE IF PyEq(self, PyInt(0)) THEN PyInt(0)
  ELSE IF PyEq(self, PyInt(1)) THEN other0
  ELSE
    LET other == ordinal(other0)
        self_h == IF self.vnf # <<>> THEN 2 ELSE IF self.cnf # <<>> THEN 1 ELSE 0
        self_top == IF self_h = 2 THEN self.vnf[1]
                    ELSE IF self_h = 1 THEN self.cnf[1] ELSE self.nat
        \* the terms of other with their hierarchy, in the order of the loops
        terms ==
          [k \in DOMAIN other.vnf |-> <<2, other.vnf[k]>>]
          \o [k \in DOMAIN other.cnf |-> <<1, other.cnf[k]>>]
          \o (IF other.nat # 0 THEN << <<0, other.nat>> >> ELSE <<>>)
        pieces ==
          [k \in DOMAIN terms |->
             term_mul(self_h, self_top, terms[k][1], terms[k][2])]
          \o (IF other.nat # 0 THEN <<rem(self, self_h)>> ELSE <<>>)
    IN sum_bisected(pieces)

\* a faulty __rmul__: the operands are not swapped back
ordinal_rmul_unswapped(self, other) == Times(self, ordinal(other))

\* ordinal.__rmul__: ordinal(other) * self
ordinal_rmul(self, other) == Times(ordinal(other), self)

(***************************************************************************)
(* Exponentiation.                                                         *)
(***************************************************************************)
\* pow_sq: x^y by squaring, through the operands' own multiplication
RECURSIVE pow_sq_loop(_, _, _)
pow_sq_loop(r, x, y) ==
  IF y = 0 THEN r
  ELSE pow_sq_loop(IF y % 2 = 1 THEN Times(r, x) ELSE r, Times(x, x), y \div 2)

\* a faulty pow_sq: the accumulator starts at x instead of 1
pow_sq_from_x(x, y) == pow_sq_loop(x, x, y)

pow_sq(x, y) == pow_sq_loop(PyInt(1), x, y)

\* the loop over other._cnf of the natural base case: the exponents are
\* "left decremented", an exponent 1 degrades to the natural part
RECURSIVE DecrementCnf(_)
DecrementCnf(cnf) ==
  IF cnf = <<>> THEN <<>>
  ELSE LET p == cnf[1][1]
           n == cnf[1][2]
       IN IF PyEq(p, PyInt(1)) THEN DecrementCnf(Tail(cnf))
          ELSE IF PyLt(p, omega)
          THEN << <<PyInt(ToInt(p) - 1), n>> >> \o DecrementCnf(Tail(cnf))
          ELSE << <<p, n>> >> \o DecrementCnf(Tail(cnf))

\* rnat of the same loop: the coefficient of the last term with exponent 1
RECURSIVE DecrementNat(_, _)
DecrementNat(cnf, rnat) ==
  IF cnf = <<>> THEN rnat
  ELSE DecrementNat(Tail(cnf),
                    IF PyEq(cnf[1][1], PyInt(1)) THEN cnf[1][2] ELSE rnat)

ordinal_pow(self, other0) ==
  IF PyEq(other0, PyInt(0)) \/ PyEq(self, PyInt(1)) THEN PyInt(1)
  ELSE IF PyEq(other0, PyInt(1)) THEN self
  ELSE IF PyEq(self, PyInt(0)) THEN PyInt(0)
  ELSE IF PyLt(self, omega)
  THEN LET s == ToInt(self)
       IN IF PyLt(other0, omega) THEN PyInt(IntPow(s, ToInt(other0)))
          ELSE LET base == veblen(PyInt(0),
                                  MkOrdinal(DecrementNat(other0.cnf, 0),
                                            DecrementCnf(other0.cnf),
                                            other0.vnf))
               IN IF other0.nat # 0
                  THEN Times(base, PyInt(IntPow(s, other0.nat)))
                  ELSE base
  ELSE
    LET other == ordinal(other0)
        osucc == kind(other) = "kind_successor"
        case == IF osucc /\ kind(self) = "kind_successor" THEN 2
                ELSE IF osucc THEN 1 ELSE 0
        exp == IF case = 2 THEN MkOrdinal(0, other.cnf, other.vnf)
               ELSE IF case = 1
               THEN MkOrdinal(other.nat - 1, other.cnf, other.vnf)
               ELSE other
        exn == IF self.vnf # <<>> THEN self.vnf[1][3] ELSE self.cnf[1][2]
        top == IF self.vnf # <<>>
               THEN IF PyEq(self.vnf[1][1], PyInt(0)) THEN self.vnf[1][2]
                    ELSE TermOrdinal(self.vnf[1])
               ELSE self.cnf[1][1]
        base == veblen(PyInt(0), Times(top, exp))
    IN IF case = 2 THEN Times(base, pow_sq(self, other.nat))
       ELSE IF case = 1 THEN Times(Times(base, PyInt(exn)), self)
       ELSE base

\* ordinal.__rpow__: ordinal(other) ** self
ordinal_rpow(self, other) == Power(ordinal(other), self)

(***************************************************************************)
(* The dispatch of a binary operator: two ints use the arithmetic of int,  *)
(* an ordinal on the left answers with its own method, and an int on the   *)
(* left of an ordinal hands over to the reflected method of the ordinal.   *)
(***************************************************************************)
BinaryOp(op, x, y) ==
  IF IsInt(x) /\ IsInt(y)
  THEN CASE op = "==" -> x.nat = y.nat
         [] op = "!=" -> x.nat # y.nat
         [] op = "<" -> x.nat < y.nat
         [] op = "<=" -> x.nat <= y.nat
         [] op = ">" -> x.nat > y.nat
         [] op = ">=" -> x.nat >= y.nat
         [] op = "+" -> PyInt(x.nat + y.nat)
         [] op = "*" -> PyInt(x.nat * y.nat)
         [] op = "**" -> PyInt(IntPow(x.nat, y.nat))
  ELSE IF IsInt(x)
  THEN CASE op = "==" -> ordinal_eq(y, x)
         [] op = "!=" -> ordinal_ne(y, x)
         [] op = "<" -> ordinal_gt(y, x)
         [] op = "<=" -> ordinal_ge(y, x)
         [] op = ">" -> ordinal_lt(y, x)
         [] op = ">=" -> ordinal_le(y, x)
         [] op = "+" -> ordinal_radd(y, x)
         [] op = "*" -> ordinal_rmul(y, x)
         [] op = "**" -> ordinal_rpow(y, x)
  ELSE CASE op = "==" -> ordinal_eq(x, y)
         [] op = "!=" -> ordinal_ne(x, y)
         [] op = "<" -> ordinal_lt(x, y)
         [] op = "<=" -> ordinal_le(x, y)
         [] op = ">" -> ordinal_gt(x, y)
         [] op = ">=" -> ordinal_ge(x, y)
         [] op = "+" -> ordinal_add(x, y)
         [] op = "*" -> ordinal_mul(x, y)
         [] op = "**" -> ordinal_pow(x, y)

(***************************************************************************)
(* The named ordinals.                                                     *)
(***************************************************************************)
omega_aliases == {"omega", "w", "\\omega"}

epsilon_0_aliases ==
  {"epsilon_0", "epsilon0", "eps_0", "eps0", "e_0", "e0", "\\epsilon_0"}

zeta_0_aliases == {"zeta_0", "zeta0", "z_0", "z0", "\\zeta_0"}

\* ordinal.__init__(name = ...) for a known alias
ordinal_named(name) ==
  IF name \in omega_aliases THEN omega
  ELSE IF name \in epsilon_0_aliases THEN epsilon_0
  ELSE zeta_0

(***************************************************************************)
(* Fundamental sequences.  A call that raises is the value Raised(e), e    *)
(* the class of the exception.                                             *)
(***************************************************************************)
Raised(e) == [type |-> e, nat |-> 0, cnf |-> <<>>, vnf |-> <<>>]

ExceptionClasses == {"TypeError", "ValueError", "ZeroDivisionError"}

IsRaised(x) == x.type \in ExceptionClasses

\* the parts of fundamental.__init__: the ordinal whose sequence is indexed
\* (to_index), or NoIndex when the formula is direct or stepped
NoIndex == Raised("None")

to_index(value) ==
  IF Len(value.vnf) + Len(value.cnf) > 1
  THEN IF value.cnf # <<>>
       THEN MkOrdinal(0, <<Last(value.cnf)>>, <<>>)
       ELSE MkOrdinal(0, <<>>, <<Last(value.vnf)>>)
  ELSE IF value.vnf # <<>>
  THEN LET term == value.vnf[1]
       IN IF term[3] > 1 THEN MkOrdinal(0, <<>>, <<<<term[1], term[2], 1>>>>)
          ELSE IF kind(term[2]) = "kind_limit" THEN term[2]
          ELSE IF PyEq(term[1], PyInt(0)) THEN NoIndex
          ELSE IF kind(term[1]) = "kind_successor" THEN NoIndex
          ELSE term[1]
  ELSE LET term == value.cnf[1]
       IN IF term[2] > 1 THEN MkOrdinal(0, <<<<term[1], 1>>>>, <<>>)
          ELSE IF PyEq(term[1], PyInt(1)) THEN NoIndex
          ELSE IF kind(term[1]) = "kind_successor" THEN NoIndex
          ELSE term[1]

\* fundamental.__init__: the exception it raises, "None" when it returns
RECURSIVE fundamental_init(_)
fundamental_init(value) ==
  IF IsRaised(value) \/ IsInt(value) THEN "TypeError"
  ELSE IF kind(value) # "kind_limit" THEN "ValueError"
  ELSE IF /\ Len(value.vnf) = 1 /\ value.cnf = <<>>
          /\ value.vnf[1][3] = 1
          /\ kind(value.vnf[1][2]) = "kind_zero"
          /\ PyEq(value.vnf[1][1], PyInt(0))
  THEN "ValueError"
  ELSE IF to_index(value) = NoIndex THEN "None"
  ELSE fundamental_init(to_index(value))

\* fundamental.__getitem__ of a sequence that was constructed
RECURSIVE step_n(_, _, _)
step_n(to_sub, last, n) ==
  IF n = 0 THEN last ELSE step_n(to_sub, veblen(to_sub, last), n - 1)

RECURSIVE fundamental_getitem(_, _)
fundamental_getitem(value, n) ==
  IF Len(value.vnf) + Len(value.cnf) > 1
  THEN LET to_add == IF value.cnf # <<>>
                     THEN MkOrdinal(0, Front(value.cnf), value.vnf)
                     ELSE MkOrdinal(0, <<>>, Front(value.vnf))
       IN Plus(to_add, fundamental_getitem(to_index(value), n))
  ELSE IF value.vnf # <<>>
  THEN LET term == value.vnf[1]
       IN IF term[3] > 1
          THEN Plus(MkOrdinal(0, <<>>, <<<<term[1], term[2], term[3] - 1>>>>),
                    fundamental_getitem(to_index(value), n))
          ELSE IF kind(term[2]) = "kind_limit"
          THEN veblen(term[1], fundamental_getitem(term[2], n))
          ELSE IF PyEq(term[1], PyInt(0))
          THEN Times(veblen(PyInt(0), predecessor(term[2])), PyInt(n))
          ELSE IF kind(term[1]) = "kind_successor"
          THEN LET start == IF PyNe(term[2], PyInt(0))
                            THEN Plus(veblen(term[1], predecessor(term[2])),
                                      PyInt(1))
                            ELSE PyInt(0)
               IN step_n(predecessor(term[1]), start, n)
          ELSE LET to_arg == IF PyEq(term[2], PyInt(0)) THEN PyInt(0)
                             ELSE Plus(veblen(term[1], predecessor(term[2])),
                                       PyInt(1))
               IN veblen(fundamental_getitem(term[1], n), to_arg)
  ELSE LET term == value.cnf[1]
       IN IF term[2] > 1
          THEN Plus(MkOrdinal(0, <<<<term[1], term[2] - 1>>>>, <<>>),
                    fundamental_getitem(to_index(value), n))
          ELSE IF PyEq(term[1], PyInt(1)) THEN PyInt(n)
          ELSE IF kind(term[1]) = "kind_successor"
          THEN Times(veblen(PyInt(0), predecessor(term[1])), PyInt(n))
          ELSE veblen(PyInt(0), fundamental_getitem(term[1], n))

\* ordinal.__getitem__: self._get_fundamental()[index]
ordinal_getitem(self, index) ==
  IF fundamental_init(self) # "None" THEN Raised(fundamental_init(self))
  ELSE fundamental_getitem(self, index)

(***************************************************************************)
(* Calls with arbitrary Python operands.  Besides ints and ordinals an     *)
(* operand is a float, the quotient num / den of two integers, or a str.   *)
(***************************************************************************)
PyFloat(num, den) ==
  [type |-> "float", nat |-> num, cnf |-> <<>>, vnf |-> <<>>, den |-> den]

PyStr(name) ==
  [type |-> "str", nat |-> 0, cnf |-> <<>>, vnf |-> <<>>, name |-> name]

IsFloat(x) == x.type = "float"

IsStr(x) == x.type = "str"

IsOrdinal(x) == x.type = "ordinal"

\* isinstance(x, numbers.Real)
IsReal(x) == IsInt(x) \/ IsFloat(x)

\* "other == k" for an int k and an operand of any type
EqualsInt(other, k) ==
  IF IsInt(other) THEN other.nat = k
  ELSE IF IsFloat(other) THEN other.nat = k * other.den
  ELSE IF IsOrdinal(other) THEN PyEq(other, PyInt(k))
  ELSE FALSE

\* int(x) of a real x: truncation towards zero
Truncate(x) ==
  IF IsInt(x) THEN x.nat
  ELSE IF x.nat >= 0 THEN x.nat \div x.den
  ELSE -((-x.nat) \div x.den)

\* a constructor without the checks of its value: it takes the natural part
\* of whatever it is given, and omega for every unknown name
ordinal_init_unchecked(value) ==
  IF IsStr(value)
  THEN IF value.name \in epsilon_0_aliases \cup zeta_0_aliases
       THEN ordinal_named(value.name) ELSE omega
  ELSE MkOrdinal(value.nat, value.cnf, value.vnf)

\* ordinal.__init__(value): the new ordinal, or the exception raised
ordinal_init(value) ==
  IF IsStr(value)
  THEN IF value.name \in omega_aliases \cup epsilon_0_aliases
                            \cup zeta_0_aliases
       THEN ordinal_named(value.name)
       ELSE Raised("ValueError")
  ELSE IF IsInt(value)
  THEN IF value.nat < 0 THEN Raised("ValueError") ELSE ordinal(value)
  ELSE IF IsOrdinal(value) THEN ordinal(value)
  ELSE Raised("TypeError")

\* kind(value): the kind, or the exception raised
kind_call(value) ==
  IF IsReal(value)
  THEN IF EqualsInt(value, Truncate(value))
       THEN IF EqualsInt(value, 0) THEN "kind_zero"
            ELSE IF value.nat < 0 THEN "ValueError"
            ELSE "kind_successor"
       ELSE "ValueError"
  ELSE IF IsOrdinal(value) THEN kind(value)
  ELSE "ValueError"

\* a predecessor that checks only for zero, not for limit ordinals
predecessor_of_nonzero(value) ==
  IF kind_call(value) = "kind_zero" THEN Raised("ValueError")
  ELSE predecessor(value)

\* predecessor(value): the predecessor, or the exception raised
predecessor_call(value) ==
  IF kind_call(value) # "kind_successor" THEN Raised("ValueError")
  ELSE IF IsFloat(value) THEN PyFloat(value.nat - value.den, value.den)
  ELSE predecessor(value)

\* ordinal.__int__
ordinal_int(self) ==
  IF IsInfinite(self) THEN Raised("ValueError") ELSE PyInt(self.nat)

\* ordinal.__neg__
ordinal_neg(self) ==
  IF PyEq(self, PyInt(0)) THEN PyInt(0) ELSE Raised("ValueError")

\* ordinal.__add__ with the checks of its operand
add_call(self, other) ==
  IF IsInt(other)
  THEN IF other.nat < 0 THEN Raised("ValueError") ELSE Plus(self, other)
  ELSE IF ~IsOrdinal(other) THEN Raised("TypeError")
  ELSE Plus(self, other)

\* ordinal.__mul__ with its special cases and the checks of its operand
mul_call(self, other) ==
  IF EqualsInt(other, 0) THEN PyInt(0)
  ELSE IF EqualsInt(other, 1) THEN self
  ELSE IF PyEq(self, PyInt(0)) THEN PyInt(0)
  ELSE IF PyEq(self, PyInt(1)) THEN other
  ELSE IF IsInt(other)
  THEN IF other.nat < 0 THEN Raised("ValueError") ELSE Times(self, other)
  ELSE IF ~IsOrdinal(other) THEN Raised("TypeError")
  ELSE Times(self, other)

\* s ** e for an int s >= 2 and an int e: a float when e is negative
int_pow(s, e) ==
  IF e >= 0 THEN PyInt(IntPow(s, e)) ELSE PyFloat(1, IntPow(s, -e))

\* ordinal.__pow__ with its special cases and the checks of its operand
pow_call(self, other) ==
  IF EqualsInt(other, 0) \/ PyEq(self, PyInt(1)) THEN PyInt(1)
  ELSE IF EqualsInt(other, 1) THEN self
  ELSE IF PyEq(self, PyInt(0)) THEN PyInt(0)
  ELSE IF PyLt(self, omega)
  THEN IF IsReal(other) THEN int_pow(self.nat, Truncate(other))
       ELSE IF IsStr(other) THEN Raised("TypeError")
       ELSE Power(self, other)
  ELSE IF IsRaised(ordinal_init(other)) THEN ordinal_init(other)
  ELSE Power(self, ordinal_init(other))

(***************************************************************************)
(* The fast growing hierarchy expander.  li is the list of outstanding     *)
(* function applications (subscript, count), innermost last.               *)
(***************************************************************************)
\* the numeric ceiling 10**6 of the lsub == 1 rule
Million == 1000000

\* add_func: adds the function if the iteration count is nonzero
add_func(li, sub, count) ==
  IF count # 0 THEN Append(li, <<sub, count>>) ELSE li

\* complexity, the estimate used to limit deep expansion
RECURSIVE complexity(_), CnfComplexity(_), VnfComplexity(_)
CnfComplexity(s) ==
  IF s = <<>> THEN 0
  ELSE 4 + complexity(s[1][1]) + complexity(PyInt(s[1][2]))
         + CnfComplexity(Tail(s))

VnfComplexity(s) ==
  IF s = <<>> THEN 0
  ELSE 6 + complexity(s[1][1]) + complexity(s[1][2])
         + complexity(PyInt(s[1][3])) + VnfComplexity(Tail(s))

complexity(value) ==
  IF PyLe(value, PyInt(1)) THEN 1
  ELSE IF PyLt(value, omega) THEN 3
  ELSE VnfComplexity(value.vnf) + CnfComplexity(value.cnf)
         + complexity(PyInt(value.nat))

\* what one pass of the loop body leaves: the list, n, and whether the body
\* ended in a break
Expansion(li, n, stop) ==
  [type |-> "fgh", nat |-> n, cnf |-> <<>>, vnf |-> <<>>, li |-> li,
   stop |-> stop]

\* the limit rule of the loop body once nx = lsub[n] is known
fgh_limit(rest, lsub, lcount, n, nx) ==
  IF IsRaised(nx) THEN nx
  ELSE IF complexity(nx) >= 30 THEN Expansion(rest, n, TRUE)
  ELSE Expansion(add_func(add_func(rest, lsub, lcount - 1), nx, 1), n, FALSE)

\* the body of the main loop, up to the printer call
fgh_step(li, n) ==
  LET lsub == Last(li)[1]
      lcount == Last(li)[2]
      rest == Front(li)
  IN IF PyLe(lsub, PyInt(2))
     THEN IF PyEq(lsub, PyInt(0)) THEN Expansion(rest, n + lcount, FALSE)
          ELSE IF PyEq(lsub, PyInt(1))
          THEN IF n = 0 THEN Raised("ZeroDivisionError")
               ELSE LET times == IF lcount < bin_log(Million \div n)
                                 THEN lcount ELSE bin_log(Million \div n)
                    IN IF times = 0 THEN Expansion(rest, n, TRUE)
                       ELSE Expansion(add_func(rest, lsub, lcount - times),
                                      n * IntPow(2, times), FALSE)
          ELSE IF PyEq(lsub, PyInt(2))
          THEN IF n > 16 THEN Expansion(rest, n, TRUE)
               ELSE Expansion(add_func(rest, lsub, lcount - 1),
                              IntPow(2, n) * n, FALSE)
          ELSE Expansion(rest, n, FALSE)
     ELSE IF kind(lsub) = "kind_successor"
     THEN IF (IF PyLt(lsub, omega) THEN PyGt(lsub, PyInt(4))
              ELSE lsub.nat > 2)
          THEN Expansion(rest, n, TRUE)
          ELSE Expansion(add_func(add_func(rest, lsub, lcount - 1),
                                  predecessor(lsub), n), n, FALSE)
     ELSE IF \/ PyGe(lsub, veblen(PyInt(3), PyInt(0))) /\ n > 2
             \/ PyGe(lsub, epsilon_0) /\ n > 3
     THEN Expansion(rest, n, TRUE)
     ELSE fgh_limit(rest, lsub, lcount, n, ordinal_getitem(lsub, n))

\* the main loop: at most steps passes, ended by a break of the body, by an
\* empty list or by a list of 2 + 3 * limit_complexity entries
RECURSIVE fgh_loop(_, _, _)
fgh_after(r, steps) ==
  IF IsRaised(r) THEN r
  ELSE IF r.stop \/ r.li = <<>> \/ Len(r.li) >= 5
  THEN Expansion(r.li, r.nat, FALSE)
  ELSE fgh_loop(r.li, r.nat, steps - 1)

fgh_loop(li, n, steps) ==
  IF steps = 0 THEN Expansion(li, n, FALSE)
  ELSE fgh_after(fgh_step(li, n), steps)

\* fast_growing_hierarchy(sub, value, limit_steps, convert_to = None)
fast_growing_hierarchy(sub, value, limit_steps) ==
  fgh_loop(<<<<sub, 1>>>>, value, limit_steps)

(***************************************************************************)
(* The state: three registers holding Python values, every one the result  *)
(* of a constructor call or of an operation on earlier values.  The        *)
(* variables raised, fund and call belong to the calls on one ordinal      *)
(* specified further down and keep their initial values here.              *)
(***************************************************************************)
VARIABLES a, b, c, raised, fund, call,
          fold_seq,
          fund_cache, fund_steps, requests, threads,
          fgh_li, fgh_n, fgh_steps, fgh_max, fgh_popped,
          heap, objs,
          nest_sub, nest_calls

\* the variables of the fold, of the sequence cache, of the stepwise
\* expander and of the heap of list objects, each group used by the
\* specification of its name further down
foldVars == <<fold_seq>>

cacheVars == <<fund_cache, fund_steps, requests, threads>>

fghVars == <<fgh_li, fgh_n, fgh_steps, fgh_max, fgh_popped>>

heapVars == <<heap, objs>>

nestVars == <<nest_sub, nest_calls>>

others == <<foldVars, cacheVars, fghVars, heapVars, nestVars>>

vars == <<a, b, c, raised, fund, call, others>>

\* the values the groups keep where they are not used
FoldIdle == fold_seq = <<>>

CacheIdle ==
  /\ fund_cache = <<>> /\ fund_steps = 0 /\ requests = <<>>
  /\ threads = <<>>

FghIdle ==
  /\ fgh_li = <<>> /\ fgh_n = 0 /\ fgh_steps = 0 /\ fgh_max = 0
  /\ fgh_popped = <<>>

HeapIdle == heap = <<>> /\ objs = <<>>

NestIdle == nest_sub = 0 /\ nest_calls = <<>>

\* the weight of a value: its naturals and coefficients, one more for every
\* Veblen term, and the weights of the nested exponents and arguments
RECURSIVE Weight(_), CnfWeight(_), VnfWeight(_)
CnfWeight(s) ==
  IF s = <<>> THEN 0
  ELSE Weight(s[1][1]) + s[1][2] + CnfWeight(Tail(s))

VnfWeight(s) ==
  IF s = <<>> THEN 0
  ELSE 1 + Weight(s[1][1]) + Weight(s[1][2]) + s[1][3] + VnfWeight(Tail(s))

Weight(x) == x.nat + CnfWeight(x.cnf) + VnfWeight(x.vnf)

\* r may replace register c
Fits(r) ==
  /\ Weight(r) <= MaxWeight
  /\ Weight(a) + Weight(b) + Weight(r) <= MaxTotal

Naturals == 0..MaxNat

\* what client code starts from: int literals, ordinal(n), named ordinals
Seeds ==
  {PyInt(n) : n \in Naturals}
    \cup {ordinal(PyInt(n)) : n \in Naturals}
    \cup {ordinal_named(name) :
            name \in omega_aliases \cup epsilon_0_aliases \cup zeta_0_aliases}

\* the powers of omega written veblen(0, ordinal(n))
Powers == {veblen(PyInt(0), ordinal(PyInt(n))) : n \in 1..MaxNat}

\* the first values of the Veblen functions written veblen(ordinal(n), 0)
Fixpoints == {veblen(ordinal(PyInt(n)), PyInt(0)) : n \in 1..MaxNat}

\* sums x + (y + z) of three powers of omega
Polynomials ==
  {Plus(x, Plus(y, z)) : x \in Powers \cup {omega},
                         y \in Powers \cup {omega},
                         z \in Powers \cup {omega}}

\* the values the registers start with: the seeds, the powers, the
\* fixpoints, the sums x + y of two seeds or powers, and the polynomials
Inputs ==
  {r \in Seeds \cup Powers \cup Fixpoints \cup Polynomials
          \cup {Plus(x, y) : x \in Seeds \cup Powers, y \in Seeds \cup Powers} :
     Weight(r) <= MaxWeight}

Init ==
  /\ a \in Inputs
  /\ b \in Inputs
  /\ c \in Inputs
  /\ Weight(a) + Weight(b) + Weight(c) <= MaxTotal
  /\ raised = "None"
  /\ fund = "None"
  /\ call = "None"
  /\ FoldIdle /\ CacheIdle /\ FghIdle /\ HeapIdle /\ NestIdle

\* c = <an int literal>
Literal ==
  \E n \in Naturals :
    /\ Fits(PyInt(n))
    /\ c' = PyInt(n)
    /\ UNCHANGED <<a, b, raised, fund, call, others>>

\* c = ordinal(n)
Construct ==
  \E n \in Naturals :
    /\ Fits(ordinal(PyInt(n)))
    /\ c' = ordinal(PyInt(n))
    /\ UNCHANGED <<a, b, raised, fund, call, others>>

\* c = ordinal(name)
ConstructNamed ==
  \E name \in omega_aliases \cup epsilon_0_aliases \cup zeta_0_aliases :
    /\ Fits(ordinal_named(name))
    /\ c' = ordinal_named(name)
    /\ UNCHANGED <<a, b, raised, fund, call, others>>

\* c = a + b
Add ==
  LET r == Plus(a, b)
  IN /\ Fits(r)
     /\ c' = r
     /\ UNCHANGED <<a, b, raised, fund, call, others>>

\* c = a * b
Mul ==
  LET r == Times(a, b)
  IN /\ Fits(r)
     /\ c' = r
     /\ UNCHANGED <<a, b, raised, fund, call, others>>

\* c = a ** b
Pow ==
  LET r == Power(a, b)
  IN /\ Fits(r)
     /\ c' = r
     /\ UNCHANGED <<a, b, raised, fund, call, others>>

\* c = veblen(a, b)
Veblen ==
  LET r == veblen(a, b)
  IN /\ Fits(r)
     /\ c' = r
     /\ UNCHANGED <<a, b, raised, fund, call, others>>

\* a, b, c = b, c, a
Rotate ==
  /\ a' = b
  /\ b' = c
  /\ c' = a
  /\ UNCHANGED <<raised, fund, call, others>>

\* a, b = b, a
Swap ==
  /\ a' = b
  /\ b' = a
  /\ UNCHANGED <<c, raised, fund, call, others>>

Next ==
  \/ Literal
  \/ Construct
  \/ ConstructNamed
  \/ Add
  \/ Mul
  \/ Pow
  \/ Veblen
  \/ Rotate
  \/ Swap

Spec == Init /\ [][Next]_vars

(***************************************************************************)
(* Calls on one ordinal.  Register a holds the ordinal, fund its cached    *)
(* sequence slot (_fundamental), b the operand of the call, c the value    *)
(* the last call returned (PyNone when it raised), raised the exception    *)
(* class when it raised, and call the name of the last call.               *)
(***************************************************************************)
\* largest weight of the ordinal and of an operand of a call
MaxCallWeight == 3
\* largest index looked at for an item of a fundamental sequence that is
\* at least a given value
MaxIndex == MaxWeight + 2
\* limit_steps, the number of steps the expander is allowed
MaxSteps == 3

\* operands that are neither an ordinal nor a non-negative int
NegativeInts == {PyInt(-n) : n \in 1..2}

Floats ==
  {PyFloat(-1, 2), PyFloat(0, 1), PyFloat(1, 2), PyFloat(1, 1), PyFloat(3, 2),
   PyFloat(2, 1)}

Strs ==
  {PyStr(name) : name \in omega_aliases \cup epsilon_0_aliases
                            \cup zeta_0_aliases \cup {"", "x"}}

Operands ==
  {x \in Inputs : Weight(x) <= MaxCallWeight}
    \cup NegativeInts \cup Floats \cup Strs

Subjects == {x \in Inputs : IsOrdinal(x) /\ Weight(x) <= MaxCallWeight}

\* what register c holds after a call that raised
PyNone == [type |-> "NoneType", nat |-> 0, cnf |-> <<>>, vnf |-> <<>>]

\* what iter(a) and fundamental(a) return
Iterator == [type |-> "iterator", nat |-> 0, cnf |-> <<>>, vnf |-> <<>>]

Fundamental(source) ==
  [type |-> "fundamental", nat |-> 0, cnf |-> <<>>, vnf |-> <<>>,
   source |-> source]

\* fundamental(value): the sequence object, or the exception raised
fundamental_call(value) ==
  IF fundamental_init(value) # "None" THEN Raised(fundamental_init(value))
  ELSE Fundamental(value)

\* a slot that is filled before the constructor has validated the ordinal
get_fundamental_eager(self, slot) == "fundamental"

\* ordinal._get_fundamental: the slot it leaves, given the slot it finds
get_fundamental(self, slot) ==
  IF slot = "None" /\ fundamental_init(self) # "None" THEN "None"
  ELSE "fundamental"

CallInit ==
  /\ a \in Subjects
  /\ b \in Operands
  /\ c = PyNone
  /\ raised = "None"
  /\ fund = "None"
  /\ call = "None"
  /\ FoldIdle /\ CacheIdle /\ FghIdle /\ HeapIdle /\ NestIdle

\* the call named name returned r, or raised it
Outcome(name, r) ==
  /\ call' = name
  /\ raised' = IF IsRaised(r) THEN r.type ELSE "None"
  /\ c' = IF IsRaised(r) THEN PyNone ELSE r

\* c = a + b
CallAdd == Outcome("add", add_call(a, b)) /\ UNCHANGED <<a, b, fund, others>>

\* c = a * b
CallMul == Outcome("mul", mul_call(a, b)) /\ UNCHANGED <<a, b, fund, others>>

\* c = a ** b
CallPow == Outcome("pow", pow_call(a, b)) /\ UNCHANGED <<a, b, fund, others>>

\* c = ordinal(b)
CallOrdinal == Outcome("ordinal", ordinal_init(b)) /\ UNCHANGED <<a, b, fund, others>>

\* c = predecessor(a)
CallPredecessor ==
  Outcome("predecessor", predecessor_call(a)) /\ UNCHANGED <<a, b, fund, others>>

\* c = int(a)
CallInt == Outcome("int", ordinal_int(a)) /\ UNCHANGED <<a, b, fund, others>>

\* c = -a
CallNeg == Outcome("neg", ordinal_neg(a)) /\ UNCHANGED <<a, b, fund, others>>

\* c = fundamental(a)
CallFundamental ==
  Outcome("fundamental", fundamental_call(a)) /\ UNCHANGED <<a, b, fund, others>>

\* c = a[n]
CallGetItem ==
  \E n \in Naturals :
    /\ Outcome("getitem", IF fund = "None" THEN ordinal_getitem(a, n)
                          ELSE fundamental_getitem(a, n))
    /\ fund' = get_fundamental(a, fund)
    /\ UNCHANGED <<a, b, others>>

\* c = iter(a)
CallIter ==
  /\ Outcome("iter", IF fund = "None" /\ fundamental_init(a) # "None"
                     THEN Raised(fundamental_init(a))
                     ELSE Iterator)
  /\ fund' = get_fundamental(a, fund)
  /\ UNCHANGED <<a, b, others>>

\* c = fast_growing_hierarchy(a, n, convert_to = None), the steps of the
\* expansion capped at MaxSteps
CallFgh ==
  \E n \in Naturals :
    /\ Outcome("fgh", fast_growing_hierarchy(a, n, MaxSteps))
    /\ UNCHANGED <<a, b, fund, others>>

CallNext ==
  \/ CallAdd
  \/ CallMul
  \/ CallPow
  \/ CallOrdinal
  \/ CallPredecessor
  \/ CallInt
  \/ CallNeg
  \/ CallFundamental
  \/ CallGetItem
  \/ CallIter
  \/ CallFgh

CallSpec == CallInit /\ [][CallNext]_vars

(***************************************************************************)
(* Properties.  Each is a predicate of the registers: a, b and c range     *)
(* over the values the program has built.                                  *)
(***************************************************************************)
ExactlyOne(p, q, r) == (p /\ ~q /\ ~r) \/ (~p /\ q /\ ~r) \/ (~p /\ ~q /\ r)

\* x + x + ... + x with n operands, evaluated from the left; 0 for n = 0
RECURSIVE RepeatedSum(_, _)
RepeatedSum(x, n) ==
  IF n = 0 THEN PyInt(0)
  ELSE IF n = 1 THEN x
  ELSE Plus(RepeatedSum(x, n - 1), x)

\* x * x * ... * x with n operands, evaluated from the left; 1 for n = 0
RECURSIVE RepeatedProduct(_, _)
RepeatedProduct(x, n) ==
  IF n = 0 THEN PyInt(1)
  ELSE IF n = 1 THEN x
  ELSE Times(RepeatedProduct(x, n - 1), x)

\* the leading term of x
LeadingTerm(x) ==
  IF x.vnf # <<>> THEN MkOrdinal(0, <<>>, <<x.vnf[1]>>)
  ELSE IF x.cnf # <<>> THEN MkOrdinal(0, <<x.cnf[1]>>, <<>>)
  ELSE x

\* a non-zero ordinal below epsilon_0
BelowEpsilon0(x) == x.vnf = <<>> /\ (x.cnf # <<>> \/ x.nat # 0)

\* x.nat ** e stays inside the integers of the model checker
PowerInRange(x, e) == (bin_log(x.nat) + 1) * e <= 30

\* C1: the comparison operators of ordinal form a total order: for every
\* pair of ordinals exactly one of x < y, x == y, y < x holds, x <= y is
\* (x < y or x == y), x > y is y < x, and < is transitive, whatever the
\* cached hashes are.
TotalOrder ==
  LET x == ordinal(a)
      y == ordinal(b)
      z == ordinal(c)
  IN /\ ExactlyOne(PyLt(x, y), PyEq(x, y), PyLt(y, x))
     /\ PyLe(x, y) <=> (PyLt(x, y) \/ PyEq(x, y))
     /\ PyGt(x, y) <=> PyLt(y, x)
     /\ (PyLt(x, y) /\ PyLt(y, z)) => PyLt(x, z)

\* C2: for non-negative integers i, j of any magnitude, ordinal(i) OP
\* ordinal(j) and ordinal(i) OP j are the integer comparison i OP j, for
\* OP in ==, !=, <, <=, >, >=.
IntegerComparisons ==
  (~IsInfinite(a) /\ ~IsInfinite(b)) =>
    LET i == a.nat
        j == b.nat
        x == ordinal(a)
    IN \A y \in {ordinal(b), PyInt(j)} :
         /\ PyEq(x, y) <=> i = j
         /\ PyNe(x, y) <=> i # j
         /\ PyLt(x, y) <=> i < j
         /\ PyLe(x, y) <=> i <= j
         /\ PyGt(x, y) <=> i > j
         /\ PyGe(x, y) <=> i >= j

\* C3: addition is associative, (x + y) + z == x + (y + z), for finite,
\* CNF and VNF ordinals in any mix.
AdditionAssociative ==
  LET x == ordinal(a)
      y == ordinal(b)
      z == ordinal(c)
  IN PyEq(Plus(Plus(x, y), z), Plus(x, Plus(y, z)))

\* C4: addition absorbs a smaller left operand, x + y == y and
\* (z + x) + y == z + y when x is finite and y infinite or x is below
\* epsilon_0 and y has a VNF leading term; and y + n > y for every ordinal y
\* and finite n >= 1.
AdditionAbsorbs ==
  LET x == ordinal(a)
      y == ordinal(b)
      z == ordinal(c)
  IN /\ ((~IsInfinite(x) /\ IsInfinite(y)) \/ (x.vnf = <<>> /\ y.vnf # <<>>))
          => /\ PyEq(Plus(x, y), y)
             /\ PyEq(Plus(Plus(z, x), y), Plus(z, y))
     /\ \A n \in 1..MaxNat :
          /\ PyGt(Plus(y, PyInt(n)), y)
          /\ PyGt(Plus(y, ordinal(PyInt(n))), y)

\* C5: multiplication distributes over addition on the left,
\* x * (y + z) == x * y + x * z; in particular
\* (omega+1)*(omega+1) == omega*omega + omega + 1 and
\* omega * (omega + 1) == omega * omega + omega.
LeftDistributive ==
  LET x == ordinal(a)
      y == ordinal(b)
      z == ordinal(c)
      w1 == Plus(omega, PyInt(1))
  IN /\ PyEq(Times(x, Plus(y, z)), Plus(Times(x, y), Times(x, z)))
     /\ PyEq(Times(w1, w1), Plus(Plus(Times(omega, omega), omega), PyInt(1)))
     /\ PyEq(Times(omega, w1), Plus(Times(omega, omega), omega))

\* C6: multiplication is associative, (x * y) * z == x * (y * z), for finite,
\* CNF and VNF operands, e.g. A * A * A == A * (A * A) for A = omega*2 + 3.
MultiplicationAssociative ==
  LET A == Plus(Times(omega, PyInt(2)), PyInt(3))
  IN /\ PyEq(Times(Times(a, b), c), Times(a, Times(b, c)))
     /\ PyEq(Times(Times(A, A), A), Times(A, Times(A, A)))

\* C7: multiplying on the right by a finite n >= 0, given as int or as
\* ordinal, is repeated addition: x * n is the n-fold sum x + x + ... + x,
\* with x * 0 == 0 and x * 1 == x; e.g. omega * 2 == omega + omega and
\* (omega + 1) * 3 == omega * 3 + 1.
FiniteMultipleIsRepeatedSum ==
  LET x == ordinal(a)
  IN /\ \A n \in Naturals : \A m \in {PyInt(n), ordinal(PyInt(n))} :
          PyEq(Times(x, m), RepeatedSum(x, n))
     /\ PyEq(Times(omega, PyInt(2)), Plus(omega, omega))
     /\ PyEq(Times(Plus(omega, PyInt(1)), PyInt(3)),
             Plus(Times(omega, PyInt(3)), PyInt(1)))

\* C8: left absorption in multiplication: n * y == y for every finite
\* n >= 1 and limit ordinal y (2 * omega == omega, 2 * epsilon_0 ==
\* epsilon_0); of a non-zero left operand only the leading term matters when
\* the right operand is a limit ordinal ((omega * 2 + 3) * omega == omega *
\* omega); and 0 * x == 0, 1 * x == x.
LeftAbsorption ==
  /\ (kind(b) = "kind_limit" /\ ~IsInfinite(a) /\ a.nat >= 1)
       => PyEq(Times(a, b), b)
  /\ (kind(b) = "kind_limit" /\ PyNe(a, PyInt(0)))
       => PyEq(Times(a, b), Times(LeadingTerm(a), b))
  /\ \A n \in {PyInt(0), ordinal(PyInt(0))} : PyEq(Times(n, a), PyInt(0))
  /\ \A n \in {PyInt(1), ordinal(PyInt(1))} : PyEq(Times(n, a), a)
  /\ PyEq(Times(PyInt(2), omega), omega)
  /\ PyEq(Times(PyInt(2), epsilon_0), epsilon_0)
  /\ PyEq(Times(Plus(Times(omega, PyInt(2)), PyInt(3)), omega),
          Times(omega, omega))

\* C9: the power laws x ** (y * z) == (x ** y) ** z and
\* x ** (y + z) == (x ** y) * (x ** z) for non-zero ordinals x, y, z below
\* epsilon_0 (finite and CNF operands).
PowerLaws ==
  LET x == ordinal(a)
      y == ordinal(b)
      z == ordinal(c)
  IN (BelowEpsilon0(x) /\ BelowEpsilon0(y) /\ BelowEpsilon0(z)
        /\ PowerInRange(x, y.nat * z.nat) /\ PowerInRange(x, y.nat + z.nat))
       => /\ PyEq(Power(x, Times(y, z)), Power(Power(x, y), z))
          /\ PyEq(Power(x, Plus(y, z)), Times(Power(x, y), Power(x, z)))

\* C10: finite powers are repeated multiplication: for every ordinal x
\* (finite, limit or successor, CNF or VNF) and finite k >= 0, x ** k is the
\* k-fold product x * x * ... * x, with x ** 0 == 1 and x ** 1 == x; for
\* finite x and k it is the integer power.
FinitePowerIsRepeatedProduct ==
  \A x \in {a, ordinal(a)} : \A k \in Naturals :
    \A e \in {PyInt(k), ordinal(PyInt(k))} :
      /\ PyEq(Power(x, e), RepeatedProduct(x, k))
      /\ ~IsInfinite(x) => PyEq(Power(x, e), PyInt(IntPow(x.nat, k)))

\* C11: exponentials agree with the Veblen function at subscript 0: for every
\* integer n >= 2 and every ordinal x >= 1, n ** (omega * x) == veblen(0, x)
\* and omega ** x == veblen(0, x); in particular omega ** epsilon_0 ==
\* epsilon_0 and omega ** (epsilon_0 + 1) == epsilon_0 * omega.
ExponentialsAgreeWithVeblen ==
  /\ PyGe(a, PyInt(1)) =>
       /\ \A n \in 2..MaxNat : \A m \in {PyInt(n), ordinal(PyInt(n))} :
            PyEq(Power(m, Times(omega, a)), veblen(PyInt(0), a))
       /\ PyEq(Power(omega, a), veblen(PyInt(0), a))
  /\ PyEq(Power(omega, epsilon_0), epsilon_0)
  /\ PyEq(Power(omega, Plus(epsilon_0, PyInt(1))), Times(epsilon_0, omega))

\* s is strictly greater than sub as an ordinal; for two naturals this is the
\* order of the integers, and a natural is below every infinite ordinal
StrictlyGreater(s, sub) ==
  IF ~IsInfinite(s) /\ ~IsInfinite(sub) THEN s.nat > sub.nat
  ELSE IF ~IsInfinite(sub) THEN TRUE
  ELSE IF ~IsInfinite(s) THEN FALSE
  ELSE PyGt(s, sub)

\* C12: veblen(sub, value) returns value unchanged whenever value is a single
\* VNF term with subscript strictly greater than sub, coefficient 1 and no
\* CNF or natural part (veblen(0, epsilon_0) == epsilon_0, veblen(1, zeta_0)
\* == zeta_0, veblen(zeta_0, veblen(zeta_0 + 1, 0)) == veblen(zeta_0 + 1, 0));
\* and veblen(0, 1) == omega, veblen(1, 0) == epsilon_0, veblen(2, 0) ==
\* zeta_0.
VeblenKeepsFixedPoints ==
  /\ (/\ ~IsInt(b) /\ Len(b.vnf) = 1 /\ b.cnf = <<>> /\ b.nat = 0
      /\ b.vnf[1][3] = 1
      /\ StrictlyGreater(b.vnf[1][1], a))
       => veblen(a, b) = b
  /\ PyEq(veblen(PyInt(0), epsilon_0), epsilon_0)
  /\ PyEq(veblen(PyInt(1), zeta_0), zeta_0)
  /\ LET z1 == veblen(Plus(zeta_0, PyInt(1)), PyInt(0))
     IN PyEq(veblen(zeta_0, z1), z1)
  /\ PyEq(veblen(PyInt(0), PyInt(1)), omega)
  /\ PyEq(veblen(PyInt(1), PyInt(0)), epsilon_0)
  /\ PyEq(veblen(PyInt(2), PyInt(0)), zeta_0)

\* v is a fixed point of the subscripts below s and of no other: zero, or a
\* single VNF term of coefficient 1 whose subscript is below s
FixedPointBelow(v, s) ==
  \/ PyEq(v, PyInt(0))
  \/ /\ ~IsInt(v) /\ Len(v.vnf) = 1 /\ v.cnf = <<>> /\ v.nat = 0
     /\ v.vnf[1][3] = 1
     /\ PyLt(v.vnf[1][1], s)

\* C13: veblen(s, v) is strictly increasing in v for fixed s: v1 < v2 under
\* the comparator of ordinal implies veblen(s, v1) < veblen(s, v2); and it is
\* strictly increasing in s for fixed v when v is a fixed point of smaller
\* subscripts.
VeblenStrictlyIncreasing ==
  /\ PyLt(a, b) => PyLt(veblen(c, a), veblen(c, b))
  /\ (PyLt(a, b) /\ FixedPointBelow(c, a))
       => PyLt(veblen(a, c), veblen(b, c))

\* C14: for every limit ordinal A and all indices 0 <= n < m, the
\* fundamental sequence satisfies A[n] < A[m] and A[n] < A, in every
\* construction case.
FundamentalSequenceIncreases ==
  (~IsInt(a) /\ kind(a) = "kind_limit") =>
    \A n \in Naturals : \A m \in Naturals :
      n < m =>
        /\ ~IsRaised(ordinal_getitem(a, n))
        /\ ~IsRaised(ordinal_getitem(a, m))
        /\ PyLt(ordinal_getitem(a, n), ordinal_getitem(a, m))
        /\ PyLt(ordinal_getitem(a, n), a)

\* a register holds an ordinal or a non-negative int
IsValue(x) == IsOrdinal(x) \/ (IsInt(x) /\ x.nat >= 0)

\* C15: the fundamental sequence of a limit ordinal is cofinal in it: for
\* every limit ordinal a and every ordinal b < a there is an index n,
\* 2 <= n <= MaxIndex, with a[n] >= b.
FundamentalSequenceCofinal ==
  (kind(a) = "kind_limit" /\ IsValue(b) /\ PyLt(b, a))
    => \E n \in 2..MaxIndex :
         /\ ~IsRaised(ordinal_getitem(a, n))
         /\ PyGe(ordinal_getitem(a, n), b)

\* C16: for each of +, * and ** an operand that is neither an ordinal nor a
\* non-negative int makes the operation raise, whatever the ordinal on the
\* left: after such a call an exception was raised and no value returned.
InvalidOperandRaises ==
  (call \in {"add", "mul", "pow"} /\ ~IsValue(b))
    => (raised # "None" /\ c = PyNone)

\* C17: the fast growing hierarchy expander never raises on a valid call:
\* for every ordinal subscript a and every argument n >= 0 it returns a
\* partial expansion, the function list and the final n.
ExpanderNeverRaises ==
  call = "fgh" => (raised = "None" /\ c.type = "fgh")

\* C18: ordinal(b) raises, and yields no ordinal, for a negative int, a
\* non-integer real and an unrecognized name; for an int n >= 0 it yields the
\* ordinal with natural part n and empty cnf and vnf; for a recognized alias
\* it yields the named ordinal.
ConstructorContract ==
  call = "ordinal" =>
    /\ (IsInt(b) /\ b.nat < 0) => (raised # "None" /\ c = PyNone)
    /\ (IsFloat(b) /\ b.nat % b.den # 0) => (raised # "None" /\ c = PyNone)
    /\ (IsStr(b) /\ b.name \notin omega_aliases \cup epsilon_0_aliases
                                    \cup zeta_0_aliases)
         => (raised # "None" /\ c = PyNone)
    /\ (IsInt(b) /\ b.nat >= 0)
         => /\ raised = "None"
            /\ c = [type |-> "ordinal", nat |-> b.nat, cnf |-> <<>>,
                    vnf |-> <<>>]
    /\ (IsStr(b) /\ b.name \in omega_aliases)
         => /\ raised = "None"
            /\ c = [type |-> "ordinal", nat |-> 0,
                    cnf |-> <<<<PyInt(1), 1>>>>, vnf |-> <<>>]
    /\ (IsStr(b) /\ b.name \in epsilon_0_aliases)
         => /\ raised = "None"
            /\ c = [type |-> "ordinal", nat |-> 0, cnf |-> <<>>,
                    vnf |-> <<<<PyInt(1), PyInt(0), 1>>>>]
    /\ (IsStr(b) /\ b.name \in zeta_0_aliases)
         => /\ raised = "None"
            /\ c = [type |-> "ordinal", nat |-> 0, cnf |-> <<>>,
                    vnf |-> <<<<PyInt(2), PyInt(0), 1>>>>]

\* ordinal(b) raised ValueError for a negative int b
ConstructorContractWitness ==
  /\ call = "ordinal"
  /\ IsInt(b)
  /\ b.nat < 0
  /\ raised = "ValueError"
  /\ c = PyNone

\* C19: domain violations fail at the call: predecessor(a) raises unless a
\* is a successor ordinal and otherwise returns a with its natural part
\* reduced by one, so that predecessor(a + 1) == a; int(a) raises when a has
\* a CNF or VNF term; -a raises for every a != 0 and returns 0 for a == 0.
DomainViolationsRaise ==
  /\ call = "predecessor"
       => IF a.nat = 0 THEN raised # "None" /\ c = PyNone
          ELSE /\ raised = "None"
               /\ c = [type |-> "ordinal", nat |-> a.nat - 1, cnf |-> a.cnf,
                       vnf |-> a.vnf]
  /\ PyEq(predecessor_call(add_call(a, PyInt(1))), a)
  /\ (call = "int" /\ (a.cnf # <<>> \/ a.vnf # <<>>))
       => (raised # "None" /\ c = PyNone)
  /\ call = "neg"
       => IF PyNe(a, PyInt(0)) THEN raised # "None" /\ c = PyNone
          ELSE raised = "None" /\ c = PyInt(0)

\* predecessor(a) raised for a limit ordinal a
DomainViolationsRaiseWitness ==
  /\ call = "predecessor"
  /\ kind(a) = "kind_limit"
  /\ raised = "ValueError"
  /\ c = PyNone

\* C20: for zero and for a successor ordinal a the fundamental sequence
\* fails when the sequence object is constructed: fundamental(a), a[n] and
\* iter(a) raise and return nothing, so no sequence object exists whose
\* index access could fail later, and the cached sequence slot of a stays
\* empty.
NonLimitFailsAtConstruction ==
  kind(a) # "kind_limit" =>
    /\ call \in {"fundamental", "getitem", "iter"}
         => (raised # "None" /\ c = PyNone)
    /\ fund = "None"

\* a[n] raised for a successor ordinal a and left its slot empty
NonLimitFailsAtConstructionWitness ==
  /\ call = "getitem"
  /\ kind(a) = "kind_successor"
  /\ raised = "ValueError"
  /\ c = PyNone
  /\ fund = "None"

(***************************************************************************)
(* The folds on their own: a sequence is built item by item, as the tests  *)
(* take the prefixes of a list, and folded by reduce_bisected or by        *)
(* sum_bisected.  The items are ints, pairs of ints, or ordinals.          *)
(***************************************************************************)
\* longest sequence folded
MaxLen == 4

FoldInts == {PyInt(n) : n \in -1..2}

FoldPairs == {PyPair(u, v) : u \in {-1, 2}, v \in {0, 1}}

FoldOrdinals ==
  {ordinal(PyInt(1))}
    \cup {veblen(PyInt(0), ordinal(PyInt(n))) : n \in 1..MaxNat}

FoldItems == FoldInts \cup FoldPairs \cup FoldOrdinals

\* the identity the tests pass as `nothing` with each function
Identity(func) ==
  CASE func = "+" -> PyInt(0)
    [] func = "*" -> PyInt(1)
    [] func = "lin_concat" -> PyPair(1, 0)

\* the functions the tests fold a sequence of such items with
FoldFunctions(items) ==
  IF items = <<>> THEN {"+", "*", "lin_concat"}
  ELSE IF items[1].type = "int" THEN {"+", "*"}
  ELSE IF items[1].type = "tuple" THEN {"lin_concat"}
  ELSE {}

FoldInit ==
  /\ a = PyNone /\ b = PyNone /\ c = PyNone
  /\ raised = "None" /\ fund = "None" /\ call = "None"
  /\ fold_seq = <<>>
  /\ CacheIdle /\ FghIdle /\ HeapIdle /\ NestIdle

\* the next prefix of the list: one more item of the same type
FoldAppend ==
  \E v \in FoldItems :
    /\ Len(fold_seq) < MaxLen
    /\ IF fold_seq = <<>> THEN TRUE ELSE v.type = fold_seq[1].type
    /\ fold_seq' = Append(fold_seq, v)
    /\ c' = PyNone
    /\ call' = "None"
    /\ UNCHANGED <<a, b, raised, fund, cacheVars, fghVars, heapVars, nestVars>>

\* reduce_bisected(func, subseq, ident)
FoldReduce ==
  \E func \in FoldFunctions(fold_seq) :
    /\ c' = reduce_bisected(func, fold_seq, Identity(func))
    /\ call' = func
    /\ UNCHANGED <<a, b, raised, fund, others>>

\* sum_bisected(subseq)
FoldSum ==
  /\ IF fold_seq = <<>> THEN TRUE
     ELSE fold_seq[1].type \in {"int", "ordinal"}
  /\ c' = sum_bisected(fold_seq)
  /\ call' = "sum"
  /\ UNCHANGED <<a, b, raised, fund, others>>

FoldNext == FoldAppend \/ FoldReduce \/ FoldSum

FoldSpec == FoldInit /\ [][FoldNext]_vars

\* C22: reduce_bisected(func, seq, e) is functools.reduce(func, seq, e) for
\* the associative functions +, * and lin_concat with their identities, on
\* the empty sequence too, and sum_bisected(seq) == sum(seq) for every
\* sequence of ints or of ordinals.
BisectedFoldsAgree ==
  /\ call \in {"+", "*", "lin_concat"}
       => c = reduce(call, fold_seq, Identity(call))
  /\ call = "sum" => BinaryOp("==", c, sum(fold_seq))

(***************************************************************************)
(* The exact order: the term-by-term comparison of ordinal.__lt__ with     *)
(* neither the hash nor the tier consulted, at any depth.  ExactCmp is the *)
(* sign of x - y.                                                          *)
(***************************************************************************)
Sign(m, n) == IF m < n THEN -1 ELSE IF m = n THEN 0 ELSE 1

RECURSIVE ExactCmp(_, _), ExactTermCmp(_, _), ExactVnfCmp(_, _, _),
          ExactCnfCmp(_, _, _)

\* _cmp of _veblen_cmp on (x, xc) and (y, yc)
ExactPairCmp(x, xc, y, yc) ==
  IF ExactCmp(x, y) = 0 THEN Sign(xc, yc) ELSE ExactCmp(x, y)

\* _veblen_cmp on two _vnf terms
ExactTermCmp(s, t) ==
  IF ExactCmp(s[1], t[1]) < 0
  THEN ExactPairCmp(s[2], s[3], TermOrdinal(t), t[3])
  ELSE IF ExactCmp(s[1], t[1]) > 0
  THEN ExactPairCmp(TermOrdinal(s), s[3], t[2], t[3])
  ELSE ExactPairCmp(s[2], s[3], t[2], t[3])

\* the tuples of keys of two _vnf lists from position k
ExactVnfCmp(s, t, k) ==
  IF k > Len(s) \/ k > Len(t) THEN Sign(Len(s), Len(t))
  ELSE IF ExactTermCmp(s[k], t[k]) = 0 THEN ExactVnfCmp(s, t, k + 1)
  ELSE ExactTermCmp(s[k], t[k])

\* two _cnf lists from position k
ExactCnfCmp(s, t, k) ==
  IF k > Len(s) \/ k > Len(t) THEN Sign(Len(s), Len(t))
  ELSE IF ExactCmp(s[k][1], t[k][1]) # 0 THEN ExactCmp(s[k][1], t[k][1])
  ELSE IF s[k][2] # t[k][2] THEN Sign(s[k][2], t[k][2])
  ELSE ExactCnfCmp(s, t, k + 1)

\* (keys(x._vnf), x._cnf, x._nat) against the same of y
ExactCmp(x, y) ==
  IF ExactVnfCmp(x.vnf, y.vnf, 1) # 0 THEN ExactVnfCmp(x.vnf, y.vnf, 1)
  ELSE IF ExactCnfCmp(x.cnf, y.cnf, 1) # 0 THEN ExactCnfCmp(x.cnf, y.cnf, 1)
  ELSE Sign(x.nat, y.nat)

ExactLt(x, y) == ExactCmp(x, y) < 0

\* the normal form of one value: exponents >= 1 and strictly descending,
\* _vnf terms strictly descending by their heads, coefficients >= 1,
\* natural part >= 0, and no term at all exactly below omega
NormalForm(x) ==
  /\ x.nat >= 0
  /\ \A k \in DOMAIN x.cnf :
       /\ x.cnf[k][2] >= 1
       /\ ExactCmp(x.cnf[k][1], PyInt(1)) >= 0
       /\ k > 1 => ExactLt(x.cnf[k][1], x.cnf[k - 1][1])
  /\ \A k \in DOMAIN x.vnf :
       /\ x.vnf[k][3] >= 1
       /\ k > 1 => ExactTermCmp(TermHead(x.vnf[k]), TermHead(x.vnf[k - 1])) < 0
  /\ (x.cnf = <<>> /\ x.vnf = <<>>) <=> ExactLt(x, omega)

\* C28: every value the operations produce from integers and named
\* constants is in normal form: each register that holds an ordinal or an
\* int has exponents >= 1 in strictly descending order, Veblen terms in
\* strictly descending order with distinct heads, coefficients >= 1, a
\* natural part >= 0, and no terms exactly when it is below omega.
NormalFormInvariant ==
  /\ IsValue(a) => NormalForm(a)
  /\ IsValue(b) => NormalForm(b)
  /\ IsValue(c) => NormalForm(c)

(***************************************************************************)
(* The expander step by step: the main loop of fast_growing_hierarchy with *)
(* its locals li, n, (lsub, lcount) and the count of passes begun.  call   *)
(* is the position in the function: "None" before the call, "loop" at the  *)
(* head of the for loop, "refused" after a break inside the body, "break"  *)
(* after one of the two breaks that end a pass, "return" and "raised".     *)
(***************************************************************************)
\* largest limit_steps a call is made with
MaxFghSteps == 8

\* a loop that the count of passes does not end
in_range_unbounded(i, limit_steps) == TRUE

\* "for _ in range(limit_steps)": another pass is due after i passes
in_range(i, limit_steps) == i < limit_steps

\* "if not li:break" and "if len(li) >= 2 + 3 * limit_complexity:break"
loop_break(li) == li = <<>> \/ Len(li) >= 5

\* omega * 2 + 2, a subscript whose expansion fills the list
DeepSubject == Plus(Times(omega, PyInt(2)), PyInt(2))

FghInit ==
  /\ a \in Subjects \cup {PyInt(k) : k \in Naturals} \cup {DeepSubject}
  /\ b \in {PyInt(k) : k \in Naturals}
  /\ c = PyNone
  /\ raised = "None" /\ fund = "None" /\ call = "None"
  /\ FoldIdle /\ CacheIdle /\ FghIdle /\ HeapIdle /\ NestIdle

\* the setup: li = [(sub, 1)], n = value
FghStart ==
  /\ call = "None"
  /\ \E limit_steps \in 0..MaxFghSteps : fgh_max' = limit_steps
  /\ fgh_li' = << <<a, 1>> >>
  /\ fgh_n' = b.nat
  /\ call' = "loop"
  /\ UNCHANGED <<a, b, c, raised, fund, fgh_steps, fgh_popped,
                 foldVars, cacheVars, heapVars, nestVars>>

\* what one pass leaves, r the outcome of its body
FghPass(r) ==
  IF IsRaised(r)
  THEN /\ raised' = r.type
       /\ call' = "raised"
       /\ UNCHANGED <<fgh_li, fgh_n>>
  ELSE /\ fgh_li' = r.li
       /\ fgh_n' = r.nat
       /\ call' = IF r.stop THEN "refused"
                  ELSE IF loop_break(r.li) THEN "break" ELSE "loop"
       /\ UNCHANGED raised

\* one pass of the for loop
FghStep ==
  /\ call = "loop"
  /\ in_range(fgh_steps, fgh_max)
  /\ fgh_steps' = fgh_steps + 1
  /\ fgh_popped' = Last(fgh_li)
  /\ FghPass(fgh_step(fgh_li, fgh_n))
  /\ UNCHANGED <<a, b, c, fund, fgh_max, foldVars, cacheVars, heapVars, nestVars>>

\* "return convert(li, n)" after a break or after the last pass
FghReturn ==
  /\ \/ call \in {"refused", "break"}
     \/ call = "loop" /\ ~in_range(fgh_steps, fgh_max)
  /\ c' = Expansion(fgh_li, fgh_n, FALSE)
  /\ call' = "return"
  /\ UNCHANGED <<a, b, raised, fund, others>>

FghNext == FghStart \/ FghStep \/ FghReturn

FghSpec == FghInit /\ [][FghNext]_vars

\* C26: when a stopping heuristic refuses to expand the pair the pass has
\* popped, that pair with its remaining count is still in the list the
\* expander goes on to return, and n is the n the pass began with.
RefusedPairKept ==
  call = "refused" => \E k \in DOMAIN fgh_li : fgh_li[k] = fgh_popped

\* a pass of the loop is due and is made: what FghStep does to the count
PassDue ==
  /\ call = "loop"
  /\ in_range(fgh_steps, fgh_max)
  /\ fgh_steps' = fgh_steps + 1

\* the expander as a sequential program: the call is made, a pass that is
\* due is made, and the function returns when the loop has ended
FairFghSpec ==
  FghSpec /\ WF_vars(FghStart) /\ WF_fgh_steps(PassDue) /\ WF_vars(FghReturn)

\* the loop is at its head with an empty list, or with a list of
\* 2 + 3 * limit_complexity entries after some pass
LoopBound ==
  /\ fgh_steps <= fgh_max
  /\ call = "loop" => (fgh_li # <<>> /\ (fgh_steps > 0 => Len(fgh_li) < 5))
  /\ call = "return" => Len(c.li) <= 5

\* C27: the expander always terminates: it makes at most limit_steps
\* passes, begins no pass with an empty list nor, after the first, with a
\* list of 2 + 3 * limit_complexity = 5 or more entries, returns a list of
\* at most 5 entries, and every call comes to its return or to a raise.
ExpanderTerminates == []LoopBound /\ <>(call \in {"return", "raised"})

\* a call that returned before its passes were used up, with a full list
ExpanderTerminatesWitness ==
  /\ call = "return"
  /\ Len(c.li) = 5
  /\ fgh_steps < fgh_max

(***************************************************************************)
(* The memoized sequence: a fundamental object of the iterated-step kind,  *)
(* A[n] = step^n(start), with its list _cache of every cache_every-th      *)
(* item.  a is the source ordinal, b the cache_every it was constructed    *)
(* with, requests the indices asked for so far, fund_steps the number of   *)
(* calls of _step the last request made, c what it returned.               *)
(***************************************************************************)
\* largest cache_every, largest index requested, most requests made
MaxCacheEvery == 2
MaxRequest == 4
MaxRequests == 3

\* the branch of fundamental.__init__ that sets _step: one Veblen term with
\* count 1, a successor subscript and an argument that is no limit
IsStepped(value) ==
  /\ IsOrdinal(value)
  /\ Len(value.vnf) = 1 /\ value.cnf = <<>> /\ value.nat = 0
  /\ value.vnf[1][3] = 1
  /\ kind(value.vnf[1][2]) # "kind_limit"
  /\ ~PyEq(value.vnf[1][1], PyInt(0))
  /\ kind(value.vnf[1][1]) = "kind_successor"

\* start and to_sub of that branch
step_start(value) ==
  IF PyNe(value.vnf[1][2], PyInt(0))
  THEN Plus(veblen(value.vnf[1][1], predecessor(value.vnf[1][2])), PyInt(1))
  ELSE PyInt(0)

step_sub(value) == predecessor(value.vnf[1][1])

\* "last = self._cache[l]" read as the newest entry instead
cache_block_newest(build, l) == Last(build)

\* "last = self._cache[l]"
cache_block(build, l) == build[l + 1]

\* the block appended after ce - 1 calls of _step instead of ce
cache_append_short(build, to_sub, ce) ==
  Append(build, step_n(to_sub, Last(build), ce - 1))

\* one pass of "while len(self._cache) <= l": ce calls of _step on the
\* newest entry, and the append
cache_append(build, to_sub, ce) ==
  Append(build, step_n(to_sub, Last(build), ce))

\* the loop "while len(self._cache) <= l"
RECURSIVE cache_extend(_, _, _, _)
cache_extend(build, to_sub, ce, l) ==
  IF Len(build) <= l
  THEN cache_extend(cache_append(build, to_sub, ce), to_sub, ce, l)
  ELSE build

\* the sources of the model whose sequence is of the iterated-step kind
CacheSources == {x \in Inputs : IsStepped(x) /\ Weight(x) <= MaxCallWeight}

CacheInit ==
  /\ a \in CacheSources
  /\ b \in {PyInt(ce) : ce \in 1..MaxCacheEvery}
  /\ c = PyNone
  /\ raised = "None" /\ fund = "fundamental" /\ call = "None"
  /\ fund_cache = <<step_start(a)>>
  /\ fund_steps = 0 /\ requests = <<>> /\ threads = <<>>
  /\ FoldIdle /\ FghIdle /\ HeapIdle /\ NestIdle

\* fundamental.__getitem__(n) of the iterated-step kind, run alone
CacheGetItem ==
  \E n \in 0..MaxRequest :
    /\ Len(requests) < MaxRequests
    /\ requests' = Append(requests, n)
    /\ fund_cache' = cache_extend(fund_cache, step_sub(a), b.nat, n \div b.nat)
    /\ fund_steps' = b.nat * (Len(fund_cache') - Len(fund_cache))
                       + (n % b.nat)
    /\ c' = step_n(step_sub(a), cache_block(fund_cache', n \div b.nat),
                   n % b.nat)
    /\ call' = "getitem"
    /\ UNCHANGED <<a, b, raised, fund, threads, foldVars, fghVars, heapVars, nestVars>>

\* a new fundamental object of the same source: the cache starts again
CacheFundamental ==
  /\ requests # <<>>
  /\ fund_cache' = <<step_start(a)>>
  /\ fund_steps' = 0
  /\ requests' = <<>>
  /\ c' = PyNone
  /\ call' = "fundamental"
  /\ UNCHANGED <<a, b, raised, fund, threads, foldVars, fghVars, heapVars, nestVars>>

CacheNext == CacheGetItem \/ CacheFundamental

CacheSpec == CacheInit /\ [][CacheNext]_vars

\* C24: memoization is transparent: whatever indices were requested before
\* on the same object, the item returned for n is the step function applied
\* n times to the start value, as the computation without a cache gives it.
MemoizationTransparent ==
  call = "getitem" =>
    /\ c = step_n(step_sub(a), step_start(a), Last(requests))
    /\ c = fundamental_getitem(a, Last(requests))

\* an index of an earlier block requested after a later one was cached
MemoizationTransparentWitness ==
  /\ call = "getitem"
  /\ Len(requests) >= 2
  /\ (Last(requests) \div b.nat) + 1 < Len(fund_cache)
  /\ Last(requests) % b.nat # 0
  /\ c = fundamental_getitem(a, Last(requests))

\* the largest block index a request has asked for, 0 before any request
RECURSIVE LargestBlock(_, _)
LargestBlock(s, ce) ==
  IF s = <<>> THEN 0
  ELSE LET m == LargestBlock(Tail(s), ce)
       IN IF Head(s) \div ce > m THEN Head(s) \div ce ELSE m

\* every entry of the cache is the start value stepped j * cache_every
\* times, and the cache reaches as far as the largest request
CacheExact ==
  /\ \A j \in DOMAIN fund_cache :
       fund_cache[j] = step_n(step_sub(a), step_start(a), (j - 1) * b.nat)
  /\ Len(fund_cache) = 1 + LargestBlock(requests, b.nat)

\* a request keeps every entry the cache has, and one whose block is cached
\* already adds none and calls _step n mod cache_every times
CacheAppendOnly ==
  call' = "getitem" =>
    /\ Len(fund_cache') >= Len(fund_cache)
    /\ SubSeq(fund_cache', 1, Len(fund_cache)) = fund_cache
    /\ Last(requests') \div b.nat < Len(fund_cache)
         => /\ fund_cache' = fund_cache
            /\ fund_steps' = Last(requests') % b.nat

\* C25: the cache is append-only and exact: after any requests cache[j] is
\* step^(j * cache_every)(start) for every j, its length is 1 + the largest
\* requested n div cache_every, no request changes or removes an entry, and
\* a request whose block is cached leaves the cache as it is and applies the
\* step function exactly n mod cache_every times.
CacheAppendOnlyExact == []CacheExact /\ [][CacheAppendOnly]_vars

\* a request answered from a cached block of a cache of three entries or more
CacheAppendOnlyExactWitness ==
  /\ call = "getitem"
  /\ Len(fund_cache) >= 3
  /\ Last(requests) \div b.nat < Len(fund_cache) - 1
  /\ fund_steps = Last(requests) % b.nat
  /\ fund_steps > 0

(***************************************************************************)
(* Two threads indexing the same fundamental object.  __getitem__ takes no *)
(* lock, so the threads interleave between its statements: the test of the *)
(* while loop, the read of the newest entry with the calls of _step on the *)
(* thread's own local, the append, and the read of the block after the     *)
(* loop.  threads[t] holds the position and the locals n, last of thread   *)
(* t and what its request returned.                                        *)
(***************************************************************************)
Threads == 1..2

Local(pc, n, last, ret) == [pc |-> pc, n |-> n, last |-> last, ret |-> ret]

ThreadInit ==
  /\ a \in CacheSources
  /\ b \in {PyInt(ce) : ce \in 1..MaxCacheEvery}
  /\ c = PyNone
  /\ raised = "None" /\ fund = "fundamental" /\ call = "None"
  /\ fund_cache = <<step_start(a)>>
  /\ fund_steps = 0 /\ requests = <<>>
  /\ threads = [t \in Threads |-> Local("idle", 0, PyNone, PyNone)]
  /\ FoldIdle /\ FghIdle /\ HeapIdle /\ NestIdle

\* thread t moves to position pc with the locals last and ret
Goto(t, pc, n, last, ret) ==
  /\ threads' = [threads EXCEPT ![t] = Local(pc, n, last, ret)]
  /\ call' = pc
  /\ UNCHANGED <<a, b, c, raised, fund, fund_steps, foldVars, fghVars,
                 heapVars, nestVars>>

\* thread t calls __getitem__(n): "l, s = divmod(n, ce)"
ThreadRequest(t) ==
  \E n \in 0..MaxRequest :
    /\ threads[t].pc \in {"idle", "done"}
    /\ Len(requests) < MaxRequests
    /\ requests' = Append(requests, n)
    /\ Goto(t, "while", n, PyNone, PyNone)
    /\ UNCHANGED fund_cache

\* "while len(self._cache) <= l"
ThreadTest(t) ==
  /\ threads[t].pc = "while"
  /\ Goto(t, IF Len(fund_cache) <= threads[t].n \div b.nat
             THEN "read" ELSE "lookup",
          threads[t].n, threads[t].last, PyNone)
  /\ UNCHANGED <<fund_cache, requests>>

\* "last = self._cache[-1]" and the ce calls of _step on the local
ThreadRead(t) ==
  /\ threads[t].pc = "read"
  /\ Goto(t, "append", threads[t].n,
          step_n(step_sub(a), Last(fund_cache), b.nat), PyNone)
  /\ UNCHANGED <<fund_cache, requests>>

\* "self._cache.append(last)"
ThreadAppend(t) ==
  /\ threads[t].pc = "append"
  /\ fund_cache' = Append(fund_cache, threads[t].last)
  /\ Goto(t, "while", threads[t].n, threads[t].last, PyNone)
  /\ UNCHANGED requests

\* "last = self._cache[l]", the s calls of _step, and the return
ThreadLookup(t) ==
  /\ threads[t].pc = "lookup"
  /\ Goto(t, "done", threads[t].n, threads[t].last,
          step_n(step_sub(a), cache_block(fund_cache, threads[t].n \div b.nat),
                 threads[t].n % b.nat))
  /\ UNCHANGED <<fund_cache, requests>>

ThreadNext ==
  \E t \in Threads :
    \/ ThreadRequest(t)
    \/ ThreadTest(t)
    \/ ThreadRead(t)
    \/ ThreadAppend(t)
    \/ ThreadLookup(t)

ThreadSpec == ThreadInit /\ [][ThreadNext]_vars

\* C30: with two requests interleaved on the same object the cache still
\* holds step^(j * cache_every)(start) at every j, and each request that
\* returned has returned step^n(start) for its own n.
InterleavedRequestsExact ==
  /\ \A j \in DOMAIN fund_cache :
       fund_cache[j] = step_n(step_sub(a), step_start(a), (j - 1) * b.nat)
  /\ \A t \in Threads :
       threads[t].pc = "done"
         => threads[t].ret = step_n(step_sub(a), step_start(a), threads[t].n)

(***************************************************************************)
(* The cost of a comparison: the number of invocations of ordinal.__lt__   *)
(* and of ordinal._veblen_cmp that the evaluation of "x < y", "x <= y" or  *)
(* "x > y" makes.  __eq__ calls neither.  Python compares two tuples by    *)
(* searching the first position whose items are not ==, and then applies   *)
(* the operator to the two items there; the items of the tuple of keys are *)
(* compared by _veblen_cmp, once for each == and once for the operator.    *)
(***************************************************************************)
RECURSIVE LtCalls(_, _), LeCalls(_, _), GtCalls(_, _), BodyCalls(_, _, _),
          VeblenCmpCalls(_, _), PairCalls(_, _, _, _), KeySearchCalls(_, _, _)

\* _cmp((x, xc), (y, yc)) of _veblen_cmp: "x == y" and, when that is false,
\* "x < y"
PairCalls(x, xc, y, yc) ==
  IF PyEq(x, y) THEN 0 ELSE LtCalls(x, y)

\* one invocation of _veblen_cmp(s, t)
VeblenCmpCalls(s, t) ==
  1 + LtCalls(s[1], t[1])
    + (IF PyLt(s[1], t[1])
       THEN PairCalls(s[2], s[3], TermOrdinal(t), t[3])
       ELSE GtCalls(s[1], t[1])
              + (IF PyGt(s[1], t[1])
                 THEN PairCalls(TermOrdinal(s), s[3], t[2], t[3])
                 ELSE PairCalls(s[2], s[3], t[2], t[3])))

\* the search for the first pair of unequal keys from position k
KeySearchCalls(s, t, k) ==
  IF k > Len(s) \/ k > Len(t) THEN 0
  ELSE VeblenCmpCalls(s[k], t[k])
         + (IF veblen_cmp(s[k], t[k]) = 0 THEN KeySearchCalls(s, t, k + 1)
            ELSE 0)

\* the first position where two lists of keys differ, 0 if there is none
RECURSIVE FirstUnequalKey(_, _, _)
FirstUnequalKey(s, t, k) ==
  IF k > Len(s) \/ k > Len(t) THEN 0
  ELSE IF veblen_cmp(s[k], t[k]) # 0 THEN k
  ELSE FirstUnequalKey(s, t, k + 1)

\* the first position where two _cnf lists differ, 0 if there is none
RECURSIVE FirstUnequalTerm(_, _, _)
FirstUnequalTerm(s, t, k) ==
  IF k > Len(s) \/ k > Len(t) THEN 0
  ELSE IF ~(PyEq(s[k][1], t[k][1]) /\ s[k][2] = t[k][2]) THEN k
  ELSE FirstUnequalTerm(s, t, k + 1)

\* the body of __lt__ (le false) or __le__ (le true) after its type checks
BodyCalls(self, other, le) ==
  IF IsInt(other) THEN 0
  ELSE IF Hash(self) = Hash(other) THEN 0
  ELSE IF tier(self) # tier(other) THEN 0
  ELSE IF ~VnfKeysEq(self.vnf, other.vnf)
  THEN \* the tuples of keys are unequal: == has searched them, the
       \* operator searches them again and compares the keys it stops at
       2 * KeySearchCalls(self.vnf, other.vnf, 1)
         + (LET k == FirstUnequalKey(self.vnf, other.vnf, 1)
            IN IF k = 0 THEN 0
               ELSE VeblenCmpCalls(self.vnf[k], other.vnf[k]))
  ELSE KeySearchCalls(self.vnf, other.vnf, 1)
         + (LET k == FirstUnequalTerm(self.cnf, other.cnf, 1)
            IN IF k = 0 \/ PyEq(self.cnf[k][1], other.cnf[k][1]) THEN 0
               ELSE IF le THEN LeCalls(self.cnf[k][1], other.cnf[k][1])
               ELSE LtCalls(self.cnf[k][1], other.cnf[k][1]))

\* "x < y": int.__lt__, ordinal.__lt__, or the reflected ordinal.__gt__
LtCalls(x, y) ==
  IF IsInt(x) /\ IsInt(y) THEN 0
  ELSE IF IsInt(x) THEN BodyCalls(y, x, TRUE)
  ELSE 1 + BodyCalls(x, y, FALSE)

\* "x <= y": int.__le__, ordinal.__le__, or the reflected ordinal.__ge__
LeCalls(x, y) ==
  IF IsInt(x) /\ IsInt(y) THEN 0
  ELSE IF IsInt(x) THEN 1 + BodyCalls(y, x, FALSE)
  ELSE BodyCalls(x, y, TRUE)

\* "x > y": int.__gt__, ordinal.__gt__, or the reflected ordinal.__lt__
GtCalls(x, y) ==
  IF IsInt(x) /\ IsInt(y) THEN 0
  ELSE IF IsInt(x) THEN 1 + BodyCalls(y, x, FALSE)
  ELSE BodyCalls(x, y, TRUE)

(***************************************************************************)
(* Deep nesting: a and b are wrapped level by level in the same Veblen     *)
(* function, veblen(nest_sub, .), and compared at every depth, as          *)
(* test_deep_comparison_veblen_2 does; nest_calls[d] is the cost of the    *)
(* comparison at depth d.                                                  *)
(***************************************************************************)
\* deepest nesting compared
MaxDepth == 4

NestInit ==
  /\ a \in Subjects
  /\ b \in Subjects
  /\ Hash(a) # Hash(b)
  /\ c = PyNone
  /\ raised = "None" /\ fund = "None" /\ call = "None"
  /\ nest_sub \in 0..2
  /\ nest_calls = <<>>
  /\ FoldIdle /\ CacheIdle /\ FghIdle /\ HeapIdle

\* "modA = veblen(s, modA); modB = veblen(s, modB)"
Nest ==
  /\ call \in {"None", "lt"}
  /\ Len(nest_calls) < MaxDepth
  /\ a' = veblen(PyInt(nest_sub), a)
  /\ b' = veblen(PyInt(nest_sub), b)
  /\ call' = "veblen"
  /\ UNCHANGED <<c, raised, fund, nest_sub, nest_calls, foldVars, cacheVars,
                 fghVars, heapVars>>

\* "modA < modB"
Compare ==
  /\ call = "veblen"
  /\ nest_calls' = Append(nest_calls, LtCalls(a, b))
  /\ call' = "lt"
  /\ UNCHANGED <<a, b, c, raised, fund, nest_sub, foldVars, cacheVars,
                 fghVars, heapVars>>

NestNext == Nest \/ Compare

NestSpec == NestInit /\ [][NestNext]_vars

\* C23: the number of invocations of __lt__ and _veblen_cmp that the
\* comparison of two values nested to depth d makes grows linearly in d:
\* one more level of nesting adds no more invocations than the level
\* before it added.
ComparisonCostLinear ==
  \A d \in 1..(Len(nest_calls) - 2) :
    nest_calls[d + 2] - nest_calls[d + 1] <= nest_calls[d + 1] - nest_calls[d]

(***************************************************************************)
(* The tier shortcut of __lt__ against the exact order.                    *)
(***************************************************************************)
\* normal form at every depth: the value, its exponents, and the
\* subscripts and arguments of its Veblen terms
RECURSIVE HereditaryNormalForm(_)
HereditaryNormalForm(x) ==
  /\ NormalForm(x)
  /\ \A k \in DOMAIN x.cnf : HereditaryNormalForm(x.cnf[k][1])
  /\ \A k \in DOMAIN x.vnf : /\ HereditaryNormalForm(x.vnf[k][1])
                             /\ HereditaryNormalForm(x.vnf[k][2])

\* the two halves of the shortcut on one ordered pair of values
TierSound(x, y) ==
  /\ TupleLt2(tier(x), tier(y)) => ExactLt(x, y)
  /\ (tier(x) = tier(y) /\ ExactCmp(x, y) # 0) => ~PyEq(x, y)

TierPair(x, y) ==
  /\ IsValue(x) /\ IsValue(y)
  /\ HereditaryNormalForm(x) /\ HereditaryNormalForm(y)

\* C29: for values a, b in normal form at every depth, tier(a) < tier(b)
\* implies a < b in the exact term-by-term order, and two values that
\* differ in the exact order and have equal tiers are not reported equal
\* by ==.
TierShortcutSound ==
  /\ TierPair(a, b) => (TierSound(a, b) /\ TierSound(b, a))
  /\ TierPair(a, c) => (TierSound(a, c) /\ TierSound(c, a))
  /\ TierPair(b, c) => (TierSound(b, c) /\ TierSound(c, b))

\* two infinite values in normal form, one a polynomial in omega and one
\* in the Veblen hierarchy, told apart by the tier alone, next to a third
\* that shares the tier of the larger and differs from it
TierShortcutSoundWitness ==
  /\ TierPair(a, b) /\ TierPair(b, c)
  /\ IsInfinite(a) /\ a.vnf = <<>>
  /\ b.vnf # <<>>
  /\ TupleLt2(tier(a), tier(b))
  /\ tier(c) = tier(b) /\ ExactCmp(b, c) # 0

(***************************************************************************)
(* Objects.  heap is the sequence of the list objects allocated so far and *)
(* objs the sequence of the ordinal objects: an ordinal holds its natural  *)
(* part, the numbers of the list objects that are its _cnf and _vnf, and   *)
(* the slot of its fundamental sequence.  The tuples in a list are         *)
(* immutable and are held as values.  Registers a and b name the operands  *)
(* of the last operation by their numbers in objs; c holds a result that   *)
(* is not an ordinal object.                                               *)
(***************************************************************************)
\* ordinal objects allocated in one behaviour
MaxObjects == 3

Obj(n, cnf, vnf) ==
  [nat |-> n, cnf |-> cnf, vnf |-> vnf, fundamental |-> "None"]

\* the value an ordinal object holds in heap h
Value(h, o) == MkOrdinal(o.nat, h[o.cnf], h[o.vnf])

\* a faulty list(x): the list object x itself
list_shared(h, id) == [heap |-> h, id |-> id]

\* list(x): a new list object with the items of x
list(h, id) == [heap |-> Append(h, h[id]), id |-> Len(h) + 1]

\* what client code constructs directly
HeapSeeds == {ordinal(PyInt(0)), ordinal(PyInt(1)), omega, epsilon_0}

HeapInit ==
  /\ a = PyNone /\ b = PyNone /\ c = PyNone
  /\ raised = "None" /\ fund = "None" /\ call = "None"
  /\ heap = <<>> /\ objs = <<>>
  /\ FoldIdle /\ CacheIdle /\ FghIdle /\ NestIdle

HeapFrame ==
  UNCHANGED <<raised, fund, foldVars, cacheVars, fghVars, nestVars>>

\* ordinal(n) or ordinal(name): an object with two lists of its own
HeapOrdinal ==
  \E x \in HeapSeeds :
    /\ Len(objs) < MaxObjects
    /\ heap' = heap \o <<x.cnf, x.vnf>>
    /\ objs' = Append(objs, Obj(x.nat, Len(heap) + 1, Len(heap) + 2))
    /\ call' = "ordinal"
    /\ UNCHANGED <<a, b, c>> /\ HeapFrame

\* ordinal(value, copy = copy) on an ordinal object
HeapCopy ==
  \E i \in DOMAIN objs : \E copy \in BOOLEAN :
    LET value == objs[i]
        lc == list(heap, value.cnf)
        lv == list(lc.heap, value.vnf)
    IN /\ Len(objs) < MaxObjects
       /\ heap' = IF copy THEN lv.heap ELSE heap
       /\ objs' = Append(objs, IF copy THEN Obj(value.nat, lc.id, lv.id)
                               ELSE Obj(value.nat, value.cnf, value.vnf))
       /\ a' = PyInt(i)
       /\ call' = "copy"
       /\ UNCHANGED <<b, c>> /\ HeapFrame

\* objs[i] + n for an int n >= 0: the result holds both lists of self
HeapAddInt ==
  \E i \in DOMAIN objs : \E n \in 0..1 :
    LET self == objs[i]
    IN /\ Len(objs) < MaxObjects
       /\ objs' = Append(objs, Obj(self.nat + n, self.cnf, self.vnf))
       /\ a' = PyInt(i) /\ b' = PyNone
       /\ call' = "add"
       /\ UNCHANGED <<c, heap>> /\ HeapFrame

\* objs[i] + objs[j] with the sum r of the values: the list that is cut,
\* merged and extended in place is list(self._vnf) or list(self._cnf); the
\* other lists are passed on
HeapSum(r, i, j) ==
  LET self == objs[i]
      other == objs[j]
      rvnf == list(heap, self.vnf)
      rcnf == list(heap, self.cnf)
  IN /\ Weight(r) <= MaxWeight
     /\ IF heap[other.vnf] # <<>>
        THEN /\ heap' = [rvnf.heap EXCEPT ![rvnf.id] = r.vnf]
             /\ objs' = Append(objs, Obj(other.nat, other.cnf, rvnf.id))
        ELSE IF heap[other.cnf] # <<>>
        THEN /\ heap' = [rcnf.heap EXCEPT ![rcnf.id] = r.cnf]
             /\ objs' = Append(objs, Obj(other.nat, rcnf.id, self.vnf))
        ELSE /\ heap' = heap
             /\ objs' = Append(objs, Obj(self.nat + other.nat, self.cnf,
                                         self.vnf))

HeapAdd ==
  \E i \in DOMAIN objs : \E j \in DOMAIN objs :
    /\ Len(objs) < MaxObjects
    /\ HeapSum(Plus(Value(heap, objs[i]), Value(heap, objs[j])), i, j)
    /\ a' = PyInt(i) /\ b' = PyInt(j)
    /\ call' = "add"
    /\ UNCHANGED c /\ HeapFrame

\* predecessor(objs[i]): the result holds both lists of value
HeapPredecessor ==
  \E i \in DOMAIN objs :
    LET value == objs[i]
    IN /\ Len(objs) < MaxObjects
       /\ IF kind(Value(heap, value)) # "kind_successor"
          THEN /\ c' = Raised("ValueError")
               /\ UNCHANGED objs
          ELSE /\ c' = PyNone
               /\ objs' = Append(objs, Obj(value.nat - 1, value.cnf,
                                           value.vnf))
       /\ a' = PyInt(i) /\ b' = PyNone
       /\ call' = "predecessor"
       /\ UNCHANGED heap /\ HeapFrame

\* the result r of *, ** or veblen on objs[i] and objs[j]: an int or an
\* exception in c, or an ordinal object; each list of the object is a new
\* list or a list of an operand with the same items (the operand itself
\* returned, or its list handed to the constructor)
HeapResult(r, i, j) ==
  IF ~IsOrdinal(r)
  THEN c' = r /\ UNCHANGED <<heap, objs>>
  ELSE LET lists == {objs[i].cnf, objs[i].vnf, objs[j].cnf, objs[j].vnf}
       IN \E cid \in {0} \cup {k \in lists : heap[k] = r.cnf} :
          \E vid \in {0} \cup {k \in lists : heap[k] = r.vnf} :
            LET h1 == IF cid = 0 THEN Append(heap, r.cnf) ELSE heap
                h2 == IF vid = 0 THEN Append(h1, r.vnf) ELSE h1
            IN /\ heap' = h2
               /\ objs' = Append(objs, Obj(r.nat,
                                           IF cid = 0 THEN Len(h1) ELSE cid,
                                           IF vid = 0 THEN Len(h2) ELSE vid))
               /\ c' = PyNone

HeapOperate ==
  \E i \in DOMAIN objs : \E j \in DOMAIN objs :
  \E op \in {"mul", "pow", "veblen"} :
    LET self == Value(heap, objs[i])
        other == Value(heap, objs[j])
        r == IF op = "mul" THEN mul_call(self, other)
             ELSE IF op = "pow" THEN pow_call(self, other)
             ELSE veblen(self, other)
    IN /\ Len(objs) < MaxObjects
       /\ Weight(r) <= MaxWeight
       /\ HeapResult(r, i, j)
       /\ a' = PyInt(i) /\ b' = PyInt(j)
       /\ call' = op
       /\ HeapFrame

\* objs[i] < objs[j] and objs[i] == objs[j]: nothing is written
HeapCompare ==
  \E i \in DOMAIN objs : \E j \in DOMAIN objs :
    LET self == Value(heap, objs[i])
        other == Value(heap, objs[j])
    IN /\ call' = IF PyLt(self, other) THEN "lt: True"
                  ELSE IF PyEq(self, other) THEN "eq: True"
                  ELSE "eq: False"
       /\ a' = PyInt(i) /\ b' = PyInt(j)
       /\ UNCHANGED <<c, heap, objs>> /\ HeapFrame

\* objs[i][n] with the item r: _get_fundamental fills the slot of objs[i];
\* the item is an ordinal object with lists of its own, an int or an
\* exception
HeapItem(r, slot, i) ==
  /\ Weight(r) <= MaxWeight
  /\ IF IsOrdinal(r)
     THEN /\ heap' = heap \o <<r.cnf, r.vnf>>
          /\ objs' = Append([objs EXCEPT ![i].fundamental = slot],
                            Obj(r.nat, Len(heap) + 1, Len(heap) + 2))
          /\ c' = PyNone
     ELSE /\ heap' = heap
          /\ objs' = [objs EXCEPT ![i].fundamental = slot]
          /\ c' = r

HeapGetItem ==
  \E i \in DOMAIN objs : \E n \in 0..1 :
    /\ Len(objs) < MaxObjects
    /\ HeapItem(ordinal_getitem(Value(heap, objs[i]), n),
                get_fundamental(Value(heap, objs[i]), objs[i].fundamental), i)
    /\ a' = PyInt(i) /\ b' = PyInt(n)
    /\ call' = "getitem"
    /\ HeapFrame

HeapNext ==
  \/ HeapOrdinal
  \/ HeapCopy
  \/ HeapAddInt
  \/ HeapAdd
  \/ HeapPredecessor
  \/ HeapOperate
  \/ HeapCompare
  \/ HeapGetItem

HeapSpec == HeapInit /\ [][HeapNext]_vars

\* one step keeps every list object and the three parts of every ordinal
Kept ==
  /\ \A k \in DOMAIN heap : k \in DOMAIN heap' /\ heap'[k] = heap[k]
  /\ \A i \in DOMAIN objs :
       /\ i \in DOMAIN objs'
       /\ objs'[i].nat = objs[i].nat
       /\ objs'[i].cnf = objs[i].cnf
       /\ objs'[i].vnf = objs[i].vnf

\* C21: no operation (construction, copy, +, *, **, veblen, predecessor,
\* comparison, indexing of the fundamental sequence) changes the natural
\* part, the _cnf list or the _vnf list of an ordinal that exists, nor the
\* items of a list object that exists, also when the result holds a list
\* of an operand.
OrdinalsImmutable == [][Kept]_vars

\* the last operation was self + other with self in the Veblen hierarchy
\* and an infinite other below epsilon_0: the result holds the _vnf list
\* of self, which is not empty, and a list of its own, the copy of
\* self._cnf extended in place
OrdinalsImmutableWitness ==
  /\ call = "add" /\ IsInt(a) /\ IsInt(b)
  /\ LET self == objs[a.nat]
         r == objs[Len(objs)]
     IN /\ r.vnf = self.vnf /\ heap[self.vnf] # <<>>
        /\ r.cnf # self.cnf
        /\ heap[r.cnf] # heap[self.cnf]
=============================================================================
